---- MODULE Spec2Model ----
(***************************************************************************)
(* A model of the link extractor (src/src/link_extractor.py): the          *)
(* LinkExtractor class with fetch_page, extract_links, get_all_links,      *)
(* extract_links_with_browser, _is_valid_url, _clean_url, _is_same_domain. *)
(*                                                                         *)
(* A Python str is a sequence of one-character strings, so that split,    *)
(* rstrip, startswith, count, urlparse and urljoin are computed character  *)
(* by character as the library computes them.  Python's None is the value  *)
(* None below, which is no such sequence.                                  *)
(***************************************************************************)
EXTENDS Integers, Sequences, FiniteSets, TLC

VARIABLES
    base_url,      \* self.base_url
    diagnostics,   \* self.diagnostics, a dict: a function from keys to values
    last_error,    \* self.last_error
    call,          \* the call that returned last: operation, arguments, what the network did
    ret_links,     \* the links it returned (a set, or a sorted list for get_all_links)
    ret_diag,      \* the diagnostics mapping it returned
    response,      \* the HTTP response of /api/extract, when the call was a request
    raw,           \* the input of a _clean_url / _is_valid_url evaluation
    cleaned,       \* _clean_url(raw), once evaluated
    recleaned,     \* _clean_url(cleaned), once evaluated
    upc,           \* where that evaluation stands: "in", "cleaned", "recleaned",
                   \* "validated", "compared"
    valid,         \* _is_valid_url(raw), once evaluated
    same,          \* _is_same_domain(raw), once evaluated
    handlers,      \* the /api/extract requests being handled at a time: where each
                   \* handler stands, its locals and its reply
    instances      \* the LinkExtractor objects these handlers constructed

vars == <<base_url, diagnostics, last_error, call, ret_links, ret_diag, response,
          raw, cleaned, recleaned, upc, valid, same, handlers, instances>>

extractorVars == <<base_url, diagnostics, last_error, call, ret_links, ret_diag, response>>
urlVars == <<raw, cleaned, recleaned, upc, valid, same>>
serverVars == <<handlers, instances>>

(***************************************************************************)
(* Python values                                                           *)
(***************************************************************************)
\* None: a one-element tuple whose element is no character.
None == << "None" >>

\* {}: the dict with no key.
EmptyDict == [k \in {} |-> None]

\* {**a, **b}: the keys of both, b's value where both have the key.
DictMerge(a, b) ==
    [k \in (DOMAIN a) \cup (DOMAIN b) |-> IF k \in DOMAIN b THEN b[k] ELSE a[k]]

\* d[k] = v on a dict.
DictSet(d, k, v) == DictMerge(d, [x \in {k} |-> v])

\* No HTTP response: the value of `response` while no request was answered.
NoReply == [status |-> 0, body |-> EmptyDict]

(***************************************************************************)
(* Python str operations                                                   *)
(***************************************************************************)
\* The printable ASCII characters in code-point order, 32 (space) to 126; the
\* grave accent (96), which the model's strings never hold, is spelled out.
ASCII ==
    << " ", "!", "\"", "#", "$", "%", "&", "'", "(", ")", "*", "+", ",", "-", ".", "/",
       "0", "1", "2", "3", "4", "5", "6", "7", "8", "9", ":", ";", "<", "=", ">", "?",
       "@", "A", "B", "C", "D", "E", "F", "G", "H", "I", "J", "K", "L", "M", "N", "O",
       "P", "Q", "R", "S", "T", "U", "V", "W", "X", "Y", "Z", "[", "\\", "]", "^", "_",
       "GRAVE", "a", "b", "c", "d", "e", "f", "g", "h", "i", "j", "k", "l", "m", "n", "o",
       "p", "q", "r", "s", "t", "u", "v", "w", "x", "y", "z", "{", "|", "}", "~" >>

\* ord, as a table
OrdTable == [c \in {ASCII[i] : i \in 1..Len(ASCII)} |->
                31 + (CHOOSE i \in 1..Len(ASCII) : ASCII[i] = c)]

\* ord(c)
Ord(c) == OrdTable[c]

IsUpper(c) == Ord(c) >= 65 /\ Ord(c) <= 90
IsAlpha(c) == IsUpper(c) \/ (Ord(c) >= 97 /\ Ord(c) <= 122)
IsDigit(c) == Ord(c) >= 48 /\ Ord(c) <= 57

\* c.lower()
LowerChar(c) == IF IsUpper(c) THEN ASCII[Ord(c) + 32 - 31] ELSE c

\* s.lower()
Lower(s) == [i \in 1..Len(s) |-> LowerChar(s[i])]

\* s.startswith(p), s.endswith(p)
StartsWith(s, p) == Len(s) >= Len(p) /\ SubSeq(s, 1, Len(p)) = p
EndsWith(s, p) == Len(s) >= Len(p) /\ SubSeq(s, Len(s) - Len(p) + 1, Len(s)) = p

\* The 1-based positions at which p occurs in s.
Occurrences(s, p) ==
    {i \in 1..(Len(s) - Len(p) + 1) : SubSeq(s, i, i + Len(p) - 1) = p}

\* p in s
Contains(s, p) == Occurrences(s, p) # {}

\* s.count(p), for a p that cannot overlap itself (http://, https://)
Count(s, p) == Cardinality(Occurrences(s, p))

\* The 1-based position of the first character of s that is in set cs, from
\* position `start` on; Len(s) + 1 when there is none.
FirstOf(s, cs, start) ==
    LET at == {i \in start..Len(s) : s[i] \in cs}
    IN IF at = {} THEN Len(s) + 1 ELSE CHOOSE i \in at : \A j \in at : i <= j

\* s.split(c)[0]
SplitFirst(s, c) == SubSeq(s, 1, FirstOf(s, {c}, 1) - 1)

\* s.split(c, 1)[1], for a s that contains c
SplitRest(s, c) == SubSeq(s, FirstOf(s, {c}, 1) + 1, Len(s))

\* s.rstrip(c): every trailing c is removed, not only the last one.
RStrip(s, c) ==
    LET keep == {i \in 1..Len(s) : s[i] # c}
        last == IF keep = {} THEN 0 ELSE CHOOSE i \in keep : \A j \in keep : j <= i
    IN SubSeq(s, 1, last)

\* s.lstrip(c)
LStrip(s, c) == SubSeq(s, FirstOf(s, {x \in {s[i] : i \in 1..Len(s)} : x # c}, 1), Len(s))

\* s.strip(): of the whitespace characters, the model's strings hold the space.
Strip(s) == RStrip(LStrip(s, " "), " ")

\* s < t in Python's order on str: by code point, a proper prefix first.
StrLess(s, t) ==
    \E i \in 1..(Len(t)) :
        /\ i <= Len(s) + 1
        /\ \A j \in 1..(i - 1) : s[j] = t[j]
        /\ (i = Len(s) + 1 \/ (i <= Len(s) /\ Ord(s[i]) < Ord(t[i])))

\* sorted(list(S)) for a set S of str.
RECURSIVE Sorted(_)
Sorted(S) ==
    IF S = {} THEN << >>
    ELSE LET m == CHOOSE x \in S : \A y \in S \ {x} : StrLess(x, y)
         IN << m >> \o Sorted(S \ {m})

(***************************************************************************)
(* urllib.parse.urlparse, as far as the extractor reads its result:        *)
(* scheme, netloc, path, query, fragment.  Left out: the ;params of the    *)
(* last path segment and the ValueError for a bracketed netloc (the        *)
(* model's strings hold no ';', '[' or ']'), and the removal of tab, CR    *)
(* and LF.                                                                 *)
(***************************************************************************)
SchemeChar(c) == IsAlpha(c) \/ IsDigit(c) \/ c \in {"+", "-", "."}

\* The steps of urlsplit, each handing what it has split off to the next (the
\* way the function's statements rebind url).
\* The query is cut from what precedes the fragment.
ParseQuery(scheme, netloc, fragment, url4) ==
    [scheme |-> scheme, netloc |-> netloc,
     path |-> SplitFirst(url4, "?"),
     query |-> IF Contains(url4, << "?" >>) THEN SplitRest(url4, "?") ELSE << >>,
     fragment |-> fragment]

\* The fragment is cut from what follows the netloc.
ParseFragment(scheme, netloc, url3) ==
    ParseQuery(scheme, netloc,
               IF Contains(url3, << "#" >>) THEN SplitRest(url3, "#") ELSE << >>,
               SplitFirst(url3, "#"))

\* _splitnetloc(url, 2): the netloc ends before position delim.
ParseNetloc(scheme, url2, delim) ==
    IF StartsWith(url2, << "/", "/" >>)
    THEN ParseFragment(scheme, SubSeq(url2, 3, delim - 1), SubSeq(url2, delim, Len(url2)))
    ELSE ParseFragment(scheme, << >>, url2)

\* The scheme is what precedes the colon at position colon, when that is a
\* scheme name.
ParseScheme(url1, colon) ==
    IF /\ colon <= Len(url1)
       /\ colon > 1
       /\ IsAlpha(url1[1])
       /\ \A i \in 1..(colon - 1) : SchemeChar(url1[i])
    THEN ParseNetloc(Lower(SubSeq(url1, 1, colon - 1)),
                     SubSeq(url1, colon + 1, Len(url1)),
                     FirstOf(SubSeq(url1, colon + 1, Len(url1)), {"/", "?", "#"}, 3))
    ELSE ParseNetloc(<< >>, url1, FirstOf(url1, {"/", "?", "#"}, 3))

UrlParseStripped(url1) == ParseScheme(url1, FirstOf(url1, {":"}, 1))

UrlParse(url0) == UrlParseStripped(LStrip(url0, " "))

(***************************************************************************)
(* urllib.parse.urljoin and urlunparse (without ;params)                   *)
(***************************************************************************)
\* s.split(c): the list of the parts of s between the occurrences of c.
RECURSIVE Split(_, _)
Split(s, c) ==
    IF ~ Contains(s, << c >>) THEN << s >>
    ELSE << SplitFirst(s, c) >> \o Split(SplitRest(s, c), c)

\* c.join(parts)
RECURSIVE Join(_, _)
Join(parts, c) ==
    IF Len(parts) = 0 THEN << >>
    ELSE IF Len(parts) = 1 THEN parts[1]
    ELSE parts[1] \o << c >> \o Join(Tail(parts), c)

\* The schemes of urllib.parse.uses_relative and uses_netloc that the model's
\* URLs have: both lists hold '', http and https; neither holds mailto, tel,
\* javascript or data.
UsesRelative == {<< >>, << "h", "t", "t", "p" >>, << "h", "t", "t", "p", "s" >>, << "f", "t", "p" >>, << "f", "i", "l", "e" >>}
UsesNetloc == {<< >>, << "h", "t", "t", "p" >>, << "h", "t", "t", "p", "s" >>, << "f", "t", "p" >>, << "f", "i", "l", "e" >>}

UrlUnparse(scheme, netloc, path, query, fragment) ==
    LET url1 == IF netloc # << >> \/ (scheme # << >> /\ scheme \in UsesNetloc
                                      /\ ~ StartsWith(path, << "/", "/" >>))
                THEN << "/", "/" >> \o netloc
                     \o (IF path # << >> /\ path[1] # "/" THEN << "/" >> ELSE << >>) \o path
                ELSE path
        url2 == IF scheme # << >> THEN scheme \o << ":" >> \o url1 ELSE url1
        url3 == IF query # << >> THEN url2 \o << "?" >> \o query ELSE url2
    IN IF fragment # << >> THEN url3 \o << "#" >> \o fragment ELSE url3

\* filter(None, segments): the non-empty segments, in order.
RECURSIVE NonEmpty(_)
NonEmpty(segs) ==
    IF Len(segs) = 0 THEN << >>
    ELSE (IF Head(segs) = << >> THEN << >> ELSE << Head(segs) >>) \o NonEmpty(Tail(segs))

\* urljoin's loop over the segments: '..' pops, '.' is skipped.
RECURSIVE ResolveDots(_, _)
ResolveDots(segs, resolved) ==
    IF Len(segs) = 0 THEN resolved
    ELSE LET seg == Head(segs)
         IN IF seg = << ".", "." >>
            THEN ResolveDots(Tail(segs),
                             IF Len(resolved) = 0 THEN resolved
                             ELSE SubSeq(resolved, 1, Len(resolved) - 1))
            ELSE IF seg = << "." >> THEN ResolveDots(Tail(segs), resolved)
            ELSE ResolveDots(Tail(segs), Append(resolved, seg))

\* '/'.join(resolved_path) or '/', for the segments of the merged path
ResolvedPath(segments) ==
    IF segments[Len(segments)] \in {<< "." >>, << ".", "." >>}
    THEN Join(Append(ResolveDots(segments, << >>), << >>), "/")
    ELSE Join(ResolveDots(segments, << >>), "/")

\* segments[1:-1] = filter(None, segments[1:-1])
FilterMiddle(segments0) ==
    IF Len(segments0) <= 2 THEN segments0
    ELSE << segments0[1] >>
         \o NonEmpty(SubSeq(segments0, 2, Len(segments0) - 1))
         \o << segments0[Len(segments0)] >>

\* base_parts: the base path's segments without the last one, unless it is ''
BaseParts(base_parts0) ==
    IF base_parts0[Len(base_parts0)] # << >>
    THEN SubSeq(base_parts0, 1, Len(base_parts0) - 1) ELSE base_parts0

\* The path of the joined URL, for a reference with a path.
MergedPath(bpath, path) ==
    IF StartsWith(path, << "/" >>)
    THEN ResolvedPath(Split(path, "/"))
    ELSE ResolvedPath(FilterMiddle(BaseParts(Split(bpath, "/")) \o Split(path, "/")))

PathOrRoot(path) == IF path = << >> THEN << "/" >> ELSE path

\* urljoin once both URLs are parsed; scheme is the reference's scheme, or the
\* base's where it has none (urlparse(url, bscheme)).
UrlJoinParsed(url, b, u0, scheme) ==
    IF scheme # b.scheme \/ scheme \notin UsesRelative THEN url
    ELSE IF scheme \in UsesNetloc /\ u0.netloc # << >>
         THEN UrlUnparse(scheme, u0.netloc, u0.path, u0.query, u0.fragment)
    ELSE IF u0.path = << >>
         THEN UrlUnparse(scheme, b.netloc, b.path,
                         IF u0.query = << >> THEN b.query ELSE u0.query, u0.fragment)
    ELSE UrlUnparse(scheme, b.netloc, PathOrRoot(MergedPath(b.path, u0.path)),
                    u0.query, u0.fragment)

SchemeOr(scheme, bscheme) == IF scheme = << >> THEN bscheme ELSE scheme

UrlJoinWith(url, b, u0) == UrlJoinParsed(url, b, u0, SchemeOr(u0.scheme, b.scheme))

UrlJoin(base, url) ==
    IF base = << >> THEN url
    ELSE IF url = << >> THEN base
    ELSE UrlJoinWith(url, UrlParse(base), UrlParse(url))

(***************************************************************************)
(* LinkExtractor.fetch_page                                                *)
(*                                                                         *)
(* What the network does on session.get is the environment's choice: an    *)
(* outcome record.  kind "response" is an HTTP response (requests follows  *)
(* redirects, so `url` is the final URL); the other kinds are the          *)
(* exception session.get raises.                                           *)
(***************************************************************************)
\* str(n) for a natural number n
RECURSIVE Digits(_)
Digits(n) ==
    IF n < 10 THEN << ASCII[n + 17] >>
    ELSE Digits(n \div 10) \o << ASCII[(n % 10) + 17] >>

\* self.timeout: the constructor's default, which api.py passes on too.
Timeout == 10

MsgForbidden == << "A", "c", "c", "e", "s", "s", " ", "f", "o", "r", "b", "i", "d", "d", "e", "n",
                   " ", "(", "4", "0", "3", ")", ".", " ", "T", "h", "e", " ", "w", "e", "b", "s",
                   "i", "t", "e", " ", "m", "a", "y", " ", "b", "e", " ", "b", "l", "o", "c", "k",
                   "i", "n", "g", " ", "a", "u", "t", "o", "m", "a", "t", "e", "d", " ", "r", "e",
                   "q", "u", "e", "s", "t", "s", "." >>
MsgUnauthorized == << "U", "n", "a", "u", "t", "h", "o", "r", "i", "z", "e", "d", " ", "(", "4", "0",
                      "1", ")", ".", " ", "T", "h", "e", " ", "w", "e", "b", "s", "i", "t", "e", " ",
                      "m", "a", "y", " ", "r", "e", "q", "u", "i", "r", "e", " ", "a", "u", "t", "h",
                      "e", "n", "t", "i", "c", "a", "t", "i", "o", "n", "." >>
MsgNotFound == << "P", "a", "g", "e", " ", "n", "o", "t", " ", "f", "o", "u", "n", "d", " ", "(",
                  "4", "0", "4", ")", "." >>
MsgTimeout == << "R", "e", "q", "u", "e", "s", "t", " ", "t", "i", "m", "e", "d", " ", "o", "u",
                 "t", " ", "a", "f", "t", "e", "r", " " >> \o Digits(Timeout) \o << " ", "s", "e", "c", "o", "n", "d", "s", "." >>
MsgConnection == << "C", "o", "n", "n", "e", "c", "t", "i", "o", "n", " ", "e", "r", "r", "o", "r",
                    ".", " ", "C", "h", "e", "c", "k", " ", "y", "o", "u", "r", " ", "i", "n", "t",
                    "e", "r", "n", "e", "t", " ", "c", "o", "n", "n", "e", "c", "t", "i", "o", "n",
                    " ", "o", "r", " ", "t", "h", "e", " ", "U", "R", "L", "." >>
MsgRedirects == << "T", "o", "o", " ", "m", "a", "n", "y", " ", "r", "e", "d", "i", "r", "e", "c",
                   "t", "s", ".", " ", "T", "h", "e", " ", "U", "R", "L", " ", "m", "a", "y", " ",
                   "b", "e", " ", "r", "e", "d", "i", "r", "e", "c", "t", "i", "n", "g", " ", "i",
                   "n", " ", "a", " ", "l", "o", "o", "p", "." >>
MsgRequestFailed(text) == << "R", "e", "q", "u", "e", "s", "t", " ", "f", "a", "i", "l", "e", "d", ":", " " >> \o text
MsgUnexpected(text) == << "U", "n", "e", "x", "p", "e", "c", "t", "e", "d", " ", "e", "r", "r", "o", "r",
                          ":", " " >> \o text
MsgParseFailed == << "F", "a", "i", "l", "e", "d", " ", "t", "o", " ", "p", "a", "r", "s", "e", " ",
                     "H", "T", "M", "L", " ", "w", "i", "t", "h", " ", "a", "n", "y", " ", "p", "a",
                     "r", "s", "e", "r" >>

\* raise_for_status raising for the 4xx statuses only: a mutant.
RaiseForStatusClientOnly(status, reason, url) ==
    IF status >= 400 /\ status < 500
    THEN Digits(status) \o << "X" >> \o reason
    ELSE None

\* Response.raise_for_status: the HTTPError's text for a 4xx or 5xx status,
\* None for every other status (nothing is raised).
RaiseForStatus(status, reason, url) ==
    IF status >= 400 /\ status < 500
    THEN Digits(status) \o << " ", "C", "l", "i", "e", "n", "t", " ", "E", "r", "r", "o", "r", ":", " " >> \o reason \o << " ", "f", "o", "r", " ", "u", "r", "l", ":", " " >> \o url
    ELSE IF status >= 500 /\ status < 600
    THEN Digits(status) \o << " ", "S", "e", "r", "v", "e", "r", " ", "E", "r", "r", "o", "r", ":", " " >> \o reason \o << " ", "f", "o", "r", " ", "u", "r", "l", ":", " " >> \o url
    ELSE None

\* ResponseDiagnostics without the status code: a mutant.
ResponseDiagnosticsNoStatus(o, url) ==
    [content_length |-> o.page.content_length,
     content_type |-> IF "Content-Type" \in DOMAIN o.headers
                      THEN o.headers["Content-Type"] ELSE "unknown",
     final_url |-> o.url,
     redirected |-> o.url # url]

\* The diagnostics fetch_page stores once a response is there.
ResponseDiagnostics(o, url) ==
    [status_code |-> o.status,
     content_length |-> o.page.content_length,
     content_type |-> IF "Content-Type" \in DOMAIN o.headers
                      THEN o.headers["Content-Type"] ELSE "unknown",
     final_url |-> o.url,
     redirected |-> o.url # url]

\* Where a redirect leads, when the fetch is redirected.
RedirectURL == << "h", "t", "t", "p", ":", "/", "/", "r", "/", "h", "o", "m", "e" >>

\* The GET requests session.get(url, allow_redirects=True) sends when it is
\* repeated once after an exception: a mutant.
SessionGetRetrying(url, o) ==
    IF o.kind = "response"
    THEN IF o.url # url THEN << url, o.url >> ELSE << url >>
    ELSE IF o.kind = "TooManyRedirects" THEN << url, RedirectURL, url, RedirectURL >>
    ELSE << url, url >>

\* The GET requests session.get(url, allow_redirects=True) sends under outcome
\* o, by their URLs: the one for url and, when the server redirects, the one
\* for where it redirects to (the model's redirections have one hop; of a
\* chain that ends in TooManyRedirects the first two requests are kept).
SessionGet(url, o) ==
    IF o.kind = "response"
    THEN IF o.url # url THEN << url, o.url >> ELSE << url >>
    ELSE IF o.kind = "TooManyRedirects" THEN << url, RedirectURL >>
    ELSE << url >>

\* fetch_page(url) under outcome o, from the instance's diagnostics diag: the
\* pair it returns (response: TRUE when the Response is returned, error), the
\* instance's diagnostics and last_error afterwards, and the requests sent.
fetch_page(url, o, diag, lasterr) ==
    IF o.kind = "response"
    THEN LET d == ResponseDiagnostics(o, url)
             failed(msg) == [response |-> FALSE, error |-> msg,
                             diagnostics |-> d, last_error |-> msg,
                             requests |-> SessionGet(url, o)]
             httpError == RaiseForStatus(o.status, o.reason, o.url)
         IN IF o.status = 403 THEN failed(MsgForbidden)
            ELSE IF o.status = 401 THEN failed(MsgUnauthorized)
            ELSE IF o.status = 404 THEN failed(MsgNotFound)
            ELSE IF httpError # None THEN failed(MsgRequestFailed(httpError))
            ELSE [response |-> TRUE, error |-> None,
                  diagnostics |-> d, last_error |-> lasterr,
                  requests |-> SessionGet(url, o)]
    ELSE LET msg == CASE o.kind = "Timeout" -> MsgTimeout
                      [] o.kind = "ConnectionError" -> MsgConnection
                      [] o.kind = "TooManyRedirects" -> MsgRedirects
                      [] o.kind = "RequestException" -> MsgRequestFailed(o.text)
                      [] OTHER -> MsgUnexpected(o.text)
         IN [response |-> FALSE, error |-> msg,
             diagnostics |-> diag, last_error |-> msg,
             requests |-> SessionGet(url, o)]

(***************************************************************************)
(* The parsed page.  BeautifulSoup's result is modelled by what the        *)
(* extractor reads of it: the href values of the a elements, of the link   *)
(* and area elements, the routerlink and data-href values, and the script  *)
(* elements with their type and their text (script.string).                *)
(***************************************************************************)
\* re.findall(r'https?://[^\s"'<>]+', text): the matches, left to right.
UrlStop == {" ", "\"", "'", "<", ">"}

\* The length of the scheme prefix the pattern matches at position i, 0 when
\* it does not match there: https:// or http://, then one more character at least.
UrlPrefixAt(text, i) ==
    LET n == IF text[i] # "h" THEN 0
             ELSE IF SubSeq(text, i, i + 7) = << "h", "t", "t", "p", "s", ":", "/", "/" >> THEN 8
             ELSE IF SubSeq(text, i, i + 6) = << "h", "t", "t", "p", ":", "/", "/" >> THEN 7
             ELSE 0
    IN IF n > 0 /\ Len(text) >= i + n /\ text[i + n] \notin UrlStop THEN n ELSE 0

RECURSIVE FindAllUrls(_, _)
FindAllUrls(text, from) ==
    LET starts == {i \in from..Len(text) : UrlPrefixAt(text, i) > 0}
    IN IF starts = {} THEN {}
       ELSE LET i == CHOOSE k \in starts : \A j \in starts : k <= j
                end == FirstOf(text, UrlStop, i) - 1
            IN {SubSeq(text, i, end)} \cup FindAllUrls(text, end + 1)

\* json.dumps of the documents the model's pages embed: an object or a list
\* at the top; as values, strings, numbers and lists of strings.
JsonString(s) == << "\"" >> \o s \o << "\"" >>

JsonScalar(v) == IF v.t = "str" THEN JsonString(v.s) ELSE Digits(v.n)

RECURSIVE JsonJoin(_)
JsonJoin(texts) ==
    IF Len(texts) = 0 THEN << >>
    ELSE IF Len(texts) = 1 THEN texts[1]
    ELSE texts[1] \o << ",", " " >> \o JsonJoin(Tail(texts))

JsonValue(v) ==
    IF v.t = "list"
    THEN << "[" >> \o JsonJoin([i \in 1..Len(v.l) |-> JsonScalar(v.l[i])]) \o << "]" >>
    ELSE JsonScalar(v)

JsonDumps(doc) ==
    IF doc.t = "obj"
    THEN << "{" >>
         \o JsonJoin([i \in 1..Len(doc.items) |->
                         JsonString(doc.items[i][1]) \o << ":", " " >>
                         \o JsonValue(doc.items[i][2])])
         \o << "}" >>
    ELSE JsonValue(doc)

JStr(s) == [t |-> "str", s |-> s, n |-> 0, l |-> << >>]
JNum(n) == [t |-> "num", s |-> << >>, n |-> n, l |-> << >>]
JList(l) == [t |-> "list", s |-> << >>, n |-> 0, l |-> l]
JObj(items) == [t |-> "obj", items |-> items]

\* The JSON-LD documents of the model's pages.
DocOrg ==
    JObj(<< << << "u", "r", "l" >>, JStr(<< "h", "t", "t", "p", "s", ":", "/", "/", "d", "/", "o", "r", "g", "/" >>) >>,
            << << "n", "a", "m", "e" >>, JStr(<< "h", "t", "t", "p", "d" >>) >>,
            << << "n" >>, JNum(7) >> >>)
DocSameAs ==
    JObj(<< << << "s", "a", "m", "e", "A", "s" >>, JList(<< JStr(<< "h", "t", "t", "p", ":", "/", "/", "e", "/", "x", "/", "#", "m", "e" >>), JStr(<< "f", "t", "p", ":", "/", "/", "e", "/", "y" >>), JNum(1) >>) >>,
            << << "i", "d" >>, JStr(<< "h", "t", "t", "p", ":", "/", "/", "a", "/", "l", "d" >>) >> >>)
DocList == JList(<< JStr(<< "h", "t", "t", "p", ":", "/", "/", "f", "/", "i", "n", "-", "l", "i", "s", "t" >>) >>)

JsonDocs == {DocOrg, DocSameAs, DocList}

JsonError == [t |-> "error", items |-> << >>]

\* json.loads(text): the document whose text it is; JsonError when the text is
\* no JSON (json.loads raises).
JsonLoads(text) ==
    IF \E d \in JsonDocs : JsonDumps(d) = text
    THEN CHOOSE d \in JsonDocs : JsonDumps(d) = text
    ELSE JsonError

LdJson == "application/ld+json"

Script(type, string) == [type |-> type, string |-> string]

\* A JSON-LD block cut short: no JSON.
BrokenLd == Script(LdJson, << "{", "\\", "\"", "u", "r", "l", "\\", "\"", ":", " ", "\\", "\"", "h", "t", "t", "p",
                              ":", "/", "/", "g", "/", "b", "r", "o", "k", "e", "n", "\\", "\"" >>)

(***************************************************************************)
(* LinkExtractor._is_valid_url and _clean_url                              *)
(***************************************************************************)
HTTP == << "h", "t", "t", "p" >>
HTTPS == << "h", "t", "t", "p", "s" >>
SchemeSep == << ":", "/", "/" >>

\* The URL length above which _is_valid_url rejects.
MaxUrlLen == 2000

\* The escaped markup _is_valid_url looks for ('href%3D' in url.lower()).
Pct22Pct3E == << "%", "2", "2", "%", "3", "E" >>
Pct3C == << "%", "3", "C" >>
Pct3E == << "%", "3", "E" >>
Pct3CSlashA == << "%", "3", "C", "/", "a" >>
HrefPct3D == << "h", "r", "e", "f", "%", "3", "D" >>

\* _is_valid_url without its length check: a mutant.
ValidParsedNoCeiling(url, parsed) ==
    /\ parsed.scheme \in {HTTP, HTTPS}
    /\ parsed.netloc # << >>
    /\ ~ (Contains(url, Pct22Pct3E) \/ Contains(url, Pct3CSlashA))
    /\ ~ (Count(url, HTTP \o SchemeSep) > 1 \/ Count(url, HTTPS \o SchemeSep) > 1)
    /\ ~ (\E i \in 1..Len(parsed.netloc) : parsed.netloc[i] \in {"<", ">", "\"", "'"})

\* The checks of _is_valid_url on url and on parsed = urlparse(url).
ValidParsed(url, parsed) ==
    /\ parsed.scheme # << >>
    /\ parsed.netloc # << >>
    /\ parsed.scheme \in {HTTP, HTTPS}
    /\ ~ ( /\ (Contains(url, Pct22Pct3E) \/ Contains(url, Pct3C) \/ Contains(url, Pct3E))
           /\ \/ Contains(url, Pct22Pct3E)
              \/ Contains(url, Pct3CSlashA)
              \/ Contains(Lower(url), HrefPct3D) )
    /\ ~ (Count(url, HTTP \o SchemeSep) > 1 \/ Count(url, HTTPS \o SchemeSep) > 1)
    /\ ~ (Len(url) > MaxUrlLen)
    /\ ~ (\E i \in 1..Len(parsed.netloc) : parsed.netloc[i] \in {"<", ">", "\"", "'"})

_is_valid_url(url) == ValidParsed(url, UrlParse(url))

\* _clean_url's last step: the URL, if it is valid.
CleanValidated(url) == IF ~ _is_valid_url(url) THEN None ELSE url

\* _clean_url's second step, on the URL without its fragment: the trailing
\* slashes go, unless the path is '/'.
CleanStripped(url) ==
    IF EndsWith(url, << "/" >>) /\ UrlParse(url).path # << "/" >>
    THEN CleanValidated(RStrip(url, "/")) ELSE CleanValidated(url)

\* _clean_url without its first statement: the mutant that keeps the fragment.
CleanUrlKeepFragment(url) == CleanStripped(url)

\* _clean_url with url[:-1] for url.rstrip('/'): the mutant that removes one slash.
CleanStrippedOne(url) ==
    IF EndsWith(url, << "/" >>) /\ UrlParse(url).path # << "/" >>
    THEN CleanValidated(SubSeq(url, 1, Len(url) - 1)) ELSE CleanValidated(url)

CleanUrlStripOne(url) == CleanStrippedOne(SplitFirst(url, "#"))

\* _clean_url with the root exception dropped: the mutant that strips "/" too.
CleanStrippedRoot(url) ==
    IF EndsWith(url, << "/" >>) THEN CleanValidated(RStrip(url, "/")) ELSE CleanValidated(url)

CleanUrlStripRoot(url) == CleanStrippedRoot(SplitFirst(url, "#"))

_clean_url(url) == CleanStripped(SplitFirst(url, "#"))

(***************************************************************************)
(* LinkExtractor._is_same_domain, _extract_links_from_scripts and          *)
(* extract_links                                                           *)
(***************************************************************************)
\* self._is_same_domain(url), self.base_url being base
_is_same_domain(base, url) == UrlParse(base).netloc = UrlParse(url).netloc

\* The href values the anchor loop skips.
SkippedHref(href) ==
    \/ href = << >>
    \/ StartsWith(href, << "j", "a", "v", "a", "s", "c", "r", "i", "p", "t", ":" >>)
    \/ StartsWith(href, << "m", "a", "i", "l", "t", "o", ":" >>)
    \/ StartsWith(href, << "t", "e", "l", ":" >>)
    \/ StartsWith(href, << "#" >>)
    \/ StartsWith(href, << "d", "a", "t", "a", ":" >>)

\* The elements of a list of attribute values, stripped.
Stripped(values) == {Strip(values[i]) : i \in 1..Len(values)}

\* The anchor loop: resolved against the response's URL, cleaned, and kept
\* by the domain policy.
AnchorLinks(page, response_url, base, filter_domain, include_external) ==
    LET hrefs == {h \in Stripped(page.anchors) : ~ SkippedHref(h)}
        urls == {_clean_url(UrlJoin(response_url, h)) : h \in hrefs} \ {None}
    IN IF filter_domain /\ ~ include_external
       THEN {u \in urls : _is_same_domain(base, u)}
       ELSE urls

\* self._extract_links_from_scripts(soup, base_url)
_extract_links_from_scripts(page, join_base) ==
    LET texts == {page.scripts[i].string : i \in 1..Len(page.scripts)} \ {<< >>}
        found == UNION {FindAllUrls(t, 1) : t \in texts}
        hrefs == {h \in Stripped(page.datahrefs) :
                     h # << >> /\ ~ StartsWith(h, << "j", "a", "v", "a", "s", "c", "r", "i", "p", "t", ":" >>)}
    IN ({_clean_url(u) : u \in found} \ {None})
       \cup ({_clean_url(UrlJoin(join_base, h)) : h \in hrefs} \ {None})

\* The loop over the link and area elements.
OtherElementLinks(page, response_url) ==
    LET hrefs == {h \in Stripped(page.others) :
                     h # << >> /\ ~ StartsWith(h, << "j", "a", "v", "a", "s", "c", "r", "i", "p", "t", ":" >>)}
    IN {_clean_url(UrlJoin(response_url, h)) : h \in hrefs} \ {None}

\* The loop over the elements with a routerlink attribute.
RouterLinks(page, response_url) ==
    LET hrefs == Stripped(page.routerlinks) \ {<< >>}
    IN {_clean_url(UrlJoin(response_url, h)) : h \in hrefs} \ {None}

\* The strings one JSON-LD document contributes: the top-level properties of
\* an object that are a str starting with http, or a list's items that are.
JsonLdValues(data) ==
    IF data.t # "obj" THEN {}
    ELSE LET vals == {data.items[i][2] : i \in 1..Len(data.items)}
             strs == {v.s : v \in {w \in vals : w.t = "str"}}
                     \cup UNION {{v.l[i].s : i \in {j \in 1..Len(v.l) : v.l[j].t = "str"}} :
                                    v \in {w \in vals : w.t = "list"}}
         IN {SplitFirst(s, "#") : s \in {x \in strs : StartsWith(x, << "h", "t", "t", "p" >>)}}

\* The JSON-LD loop, were json.loads called outside the try: the first block
\* it rejects ends the loop and nothing found in it is kept: a mutant.
JsonLdLinksAbort(page) ==
    LET blocks == {page.scripts[i].string :
                      i \in {j \in 1..Len(page.scripts) : page.scripts[j].type = LdJson}}
                  \ {<< >>}
    IN IF \E t \in blocks : JsonLoads(t) = JsonError THEN {}
       ELSE UNION {JsonLdValues(JsonLoads(t)) : t \in blocks}

\* The loop over the JSON-LD script elements; a block json.loads rejects adds
\* nothing (JsonError is no object).
JsonLdLinks(page) ==
    LET blocks == {page.scripts[i].string :
                      i \in {j \in 1..Len(page.scripts) : page.scripts[j].type = LdJson}}
                  \ {<< >>}
    IN UNION {JsonLdValues(JsonLoads(t)) : t \in blocks}

\* bool(response) is response.ok: no HTTPError from raise_for_status.
ResponseOk(o) == RaiseForStatus(o.status, o.reason, o.url) = None

\* The parsers extract_links tries in order; o.parsers_failing of them raise.
Parsers == << "html.parser", "lxml", "html5lib" >>

\* The strategies without the JSON-LD loop: a mutant.
DiscoveredLinksNoJsonLd(page, response_url, base, filter_domain, include_external) ==
    AnchorLinks(page, response_url, base, filter_domain, include_external)
    \cup _extract_links_from_scripts(page, response_url)
    \cup OtherElementLinks(page, response_url)
    \cup RouterLinks(page, response_url)

\* What the strategies find on the page, together.
DiscoveredLinks(page, response_url, base, filter_domain, include_external) ==
    AnchorLinks(page, response_url, base, filter_domain, include_external)
    \cup _extract_links_from_scripts(page, response_url)
    \cup OtherElementLinks(page, response_url)
    \cup RouterLinks(page, response_url)
    \cup JsonLdLinks(page)

\* The end of extract_links: the counts and the success flag go into
\* self.diagnostics, which is what is returned.
ExtractDone(links, done, f) ==
    [links |-> links, ret_diag |-> done, diagnostics |-> done, last_error |-> f.last_error,
     requests |-> f.requests]

ExtractSucceeded(links, page, f) ==
    ExtractDone(links,
                DictMerge(f.diagnostics,
                          [anchor_tags_found |-> Len(page.anchors),
                           unique_links_found |-> Cardinality(links),
                           success |-> TRUE]),
                f)

\* A return of extract_links before any link is looked for.
ExtractFailed(error, f) ==
    [links |-> {}, ret_diag |-> DictMerge([error |-> error], f.diagnostics),
     diagnostics |-> f.diagnostics, last_error |-> f.last_error,
     requests |-> f.requests]

\* extract_links after response, error = self.fetch_page(target_url), f being
\* what fetch_page returned and left in the instance.
ExtractFetched(filter_domain, include_external, o, base, f) ==
    IF ~ f.response \/ ~ ResponseOk(o) THEN ExtractFailed(f.error, f)
    ELSE IF o.parsers_failing >= Len(Parsers) THEN ExtractFailed(MsgParseFailed, f)
    ELSE ExtractSucceeded(DiscoveredLinks(o.page, o.url, base, filter_domain, include_external),
                          o.page, f)

\* url or self.base_url
TargetUrl(url, base) == IF url = None \/ url = << >> THEN base ELSE url

\* extract_links(url, filter_domain, include_external) under outcome o on an
\* instance with base_url base and diagnostics diag: the links and the
\* diagnostics it returns, and the instance's diagnostics and last_error after.
extract_links(url, filter_domain, include_external, o, base, diag, lasterr) ==
    ExtractFetched(filter_domain, include_external, o, base,
                   fetch_page(TargetUrl(url, base), o, diag, lasterr))

(***************************************************************************)
(* LinkExtractor.extract_links_with_browser                                *)
(*                                                                         *)
(* The environment's choice e: whether selenium imports, which way of      *)
(* creating the Chrome driver succeeds first ("none": all fail), and       *)
(* whether driver.quit() raises.                                           *)
(***************************************************************************)
MsgNoSelenium == << "S", "e", "l", "e", "n", "i", "u", "m", " ", "n", "o", "t", " ", "i", "n", "s",
                    "t", "a", "l", "l", "e", "d", ".", " ", "I", "n", "s", "t", "a", "l", "l", " ",
                    "w", "i", "t", "h", ":", " ", "p", "i", "p", " ", "i", "n", "s", "t", "a", "l",
                    "l", " ", "s", "e", "l", "e", "n", "i", "u", "m", " ", "w", "e", "b", "d", "r",
                    "i", "v", "e", "r", "-", "m", "a", "n", "a", "g", "e", "r" >>
MsgSuggestion == << "U", "s", "e", " ", "e", "x", "t", "r", "a", "c", "t", "_", "l", "i", "n", "k",
                    "s", "(", ")", " ", "f", "o", "r", " ", "n", "o", "n", "-", "J", "a", "v", "a",
                    "S", "c", "r", "i", "p", "t", " ", "s", "i", "t", "e", "s" >>

\* str(e1), str(e2): what ChromeDriverManager().install() and the bare
\* webdriver.Chrome() raise when no driver can be made.
TextE1 == << "C", "o", "u", "l", "d", " ", "n", "o", "t", " ", "r", "e", "a", "c", "h", " ",
             "h", "o", "s", "t" >>
TextE2 == << "u", "n", "a", "b", "l", "e", " ", "t", "o", " ", "o", "b", "t", "a", "i", "n",
             " ", "c", "h", "r", "o", "m", "e", "d", "r", "i", "v", "e", "r" >>

MsgSetupFailed ==
    << "C", "h", "r", "o", "m", "e", "D", "r", "i", "v", "e", "r", " ", "s", "e", "t",
       "u", "p", " ", "f", "a", "i", "l", "e", "d", ".", " ", "T", "r", "i", "e", "d",
       " ", "s", "y", "s", "t", "e", "m", " ", "p", "a", "t", "h", "s", " ", "a", "n",
       "d", " ", "w", "e", "b", "d", "r", "i", "v", "e", "r", "-", "m", "a", "n", "a",
       "g", "e", "r", ".", " " >>
    \o << "E", "r", "r", "o", "r", "s", ":", " " >> \o TextE1 \o << " ", "/", " " >> \o TextE2 \o << ".", " " >>
    \o << "I", "f", " ", "C", "h", "r", "o", "m", "e", "D", "r", "i", "v", "e", "r", " ",
          "i", "s", " ", "i", "n", "s", "t", "a", "l", "l", "e", "d", ",", " ", "e", "n",
          "s", "u", "r", "e", " ", "i", "t", "'", "s", " ", "i", "n", " ", "P", "A", "T",
          "H", " ", "o", "r", " ", "t", "r", "y", ":", " ", "b", "r", "e", "w", " ", "i",
          "n", "s", "t", "a", "l", "l", " ", "c", "h", "r", "o", "m", "e", "d", "r", "i",
          "v", "e", "r" >>

\* str(e) of the NameError that line 349 raises: `timeout` is no name of the
\* method's scope (the attribute is self.timeout).
MsgNameError == << "n", "a", "m", "e", " ", "'", "t", "i", "m", "e", "o", "u", "t", "'", " ", "i",
                   "s", " ", "n", "o", "t", " ", "d", "e", "f", "i", "n", "e", "d" >>

\* The except clause's rewording of str(e), by the substrings it looks for.
BrowserErrorMessage(error_msg) ==
    IF \/ Contains(error_msg, << "C", "h", "r", "o", "m", "e", "D", "r", "i", "v", "e", "r" >>)
       \/ Contains(Lower(error_msg), << "c", "h", "r", "o", "m", "e", "d", "r", "i", "v", "e", "r" >>)
       \/ Contains(Lower(error_msg), << "d", "r", "i", "v", "e", "r" >>)
    THEN << "C", "h", "r", "o", "m", "e", "D", "r", "i", "v", "e", "r", " ", "s", "e", "t",
            "u", "p", " ", "i", "s", "s", "u", "e", ":", " " >> \o error_msg \o << ".", " " >>
         \o << "T", "r", "y", ":", " ", "1", ")", " ", "I", "n", "s", "t", "a", "l", "l", " ",
               "m", "a", "n", "u", "a", "l", "l", "y", ":", " ", "b", "r", "e", "w", " ", "i",
               "n", "s", "t", "a", "l", "l", " ", "c", "h", "r", "o", "m", "e", "d", "r", "i",
               "v", "e", "r", " ", "(", "m", "a", "c", "O", "S", ")", " ", "o", "r", " ", "d",
               "o", "w", "n", "l", "o", "a", "d", " ", "f", "r", "o", "m", " ", "c", "h", "r",
               "o", "m", "e", "d", "r", "i", "v", "e", "r", ".", "c", "h", "r", "o", "m", "i",
               "u", "m", ".", "o", "r", "g", ",", " " >>
         \o << "2", ")", " ", "C", "h", "e", "c", "k", " ", "i", "n", "t", "e", "r", "n", "e",
               "t", " ", "c", "o", "n", "n", "e", "c", "t", "i", "o", "n", " ", "(", "f", "i",
               "r", "s", "t", " ", "r", "u", "n", " ", "d", "o", "w", "n", "l", "o", "a", "d",
               "s", " ", "C", "h", "r", "o", "m", "e", "D", "r", "i", "v", "e", "r", ")", ",",
               " " >>
         \o << "3", ")", " ", "T", "r", "y", " ", "w", "i", "t", "h", "o", "u", "t", " ", "b",
               "r", "o", "w", "s", "e", "r", " ", "a", "u", "t", "o", "m", "a", "t", "i", "o",
               "n", " ", "f", "o", "r", " ", "s", "i", "m", "p", "l", "e", "r", " ", "s", "i",
               "t", "e", "s", "." >>
    ELSE IF Contains(Lower(error_msg), << "t", "i", "m", "e", "o", "u", "t" >>)
    THEN << "P", "a", "g", "e", " ", "l", "o", "a", "d", " ", "t", "i", "m", "e", "o", "u",
            "t", ".", " ", "T", "h", "e", " ", "w", "e", "b", "s", "i", "t", "e", " ", "t",
            "o", "o", "k", " ", "t", "o", "o", " ", "l", "o", "n", "g", " ", "t", "o", " ",
            "l", "o", "a", "d", ".", " ", "T", "r", "y", " ", "i", "n", "c", "r", "e", "a",
            "s", "i", "n", "g", " ", "t", "h", "e", " ", "t", "i", "m", "e", "o", "u", "t",
            " ", "o", "r", " ", "c", "h", "e", "c", "k", " ", "y", "o", "u", "r", " ", "i",
            "n", "t", "e", "r", "n", "e", "t", " ", "c", "o", "n", "n", "e", "c", "t", "i",
            "o", "n", "." >>
    ELSE IF /\ Contains(Lower(error_msg), << "c", "h", "r", "o", "m", "e" >>)
            /\ \/ Contains(Lower(error_msg), << "n", "o", "t", " ", "f", "o", "u", "n", "d" >>)
               \/ Contains(Lower(error_msg), << "c", "a", "n", "n", "o", "t", " ", "f", "i", "n", "d" >>)
    THEN << "C", "h", "r", "o", "m", "e", " ", "b", "r", "o", "w", "s", "e", "r", " ", "n",
            "o", "t", " ", "f", "o", "u", "n", "d", ".", " ", "P", "l", "e", "a", "s", "e",
            " ", "i", "n", "s", "t", "a", "l", "l", " ", "G", "o", "o", "g", "l", "e", " ",
            "C", "h", "r", "o", "m", "e", " ", "f", "r", "o", "m", " ", "h", "t", "t", "p",
            "s", ":", "/", "/", "w", "w", "w", ".", "g", "o", "o", "g", "l", "e", ".", "c",
            "o", "m", "/", "c", "h", "r", "o", "m", "e", "/" >>
    ELSE << "B", "r", "o", "w", "s", "e", "r", " ", "a", "u", "t", "o", "m", "a", "t", "i",
            "o", "n", " ", "f", "a", "i", "l", "e", "d", ":", " " >> \o error_msg

\* extract_links_with_browser under the environment's choice e: what it
\* returns and the instance's diagnostics afterwards.  Once a driver exists,
\* `browser_timeout = max(timeout * 3, 60)` raises the NameError, so the page
\* is never loaded and every such call ends in the except clause.
BrowserFailed(d1, raised) ==
    [links |-> {},
     ret_diag |-> DictMerge(d1, [error |-> BrowserErrorMessage(raised), success |-> FALSE]),
     diagnostics |-> DictMerge(d1, [error |-> BrowserErrorMessage(raised), success |-> FALSE])]

\* What the call gives back: r when it returns, escaped when an exception
\* leaves it, and the number of calls of driver.quit().
BrowserReturned(r, quit_calls) ==
    [links |-> r.links, ret_diag |-> r.ret_diag, diagnostics |-> r.diagnostics,
     escaped |-> FALSE, quit_calls |-> quit_calls]

BrowserEscaped(r, quit_calls) ==
    [links |-> {}, ret_diag |-> EmptyDict, diagnostics |-> r.diagnostics,
     escaped |-> TRUE, quit_calls |-> quit_calls]

\* The finally clause with driver.quit() outside a try of its own: a mutant.
BrowserFinallyUnguarded(e, r) ==
    IF e.driver = "none" THEN BrowserReturned(r, 0)
    ELSE IF e.quit_raises THEN BrowserEscaped(r, 1)
    ELSE BrowserReturned(r, 1)

\* The finally clause, r being what the try or the except clause returns:
\* with a driver, driver.quit() is called and what it raises is dropped.
BrowserFinally(e, r) ==
    IF e.driver = "none" THEN BrowserReturned(r, 0)
    ELSE BrowserReturned(r, 1)

extract_links_with_browser(e, diag) ==
    IF ~ e.selenium
    THEN BrowserReturned([links |-> {},
                          ret_diag |-> [error |-> MsgNoSelenium, suggestion |-> MsgSuggestion],
                          diagnostics |-> diag], 0)
    ELSE IF e.driver = "none" THEN BrowserFinally(e, BrowserFailed(diag, MsgSetupFailed))
    ELSE BrowserFinally(e, BrowserFailed(DictSet(diag, "chromedriver_source", e.driver),
                                         MsgNameError))

(***************************************************************************)
(* The pages and the outcomes of the network the model draws from          *)
(***************************************************************************)
Page(n, anchors, others, routerlinks, datahrefs, scripts) ==
    [content_length |-> n, anchors |-> anchors, others |-> others,
     routerlinks |-> routerlinks, datahrefs |-> datahrefs, scripts |-> scripts]

PageEmpty == Page(0, << >>, << >>, << >>, << >>, << >>)

\* <a href="/about"> and <a href="https://b/x">
PageTwoAnchors ==
    Page(60, << << "/", "a", "b", "o", "u", "t" >>, << "h", "t", "t", "p", "s", ":", "/", "/", "b", "/", "x" >> >>,
         << >>, << >>, << >>, << >>)

\* hrefs the anchor loop skips, on a elements and on link elements
PageSkips ==
    Page(200,
         << << "#", "t", "o", "p" >>, << "j", "a", "v", "a", "s", "c", "r", "i", "p", "t", ":", "v", "o", "i", "d", "(",
                         "0", ")" >>, << "m", "a", "i", "l", "t", "o", ":", "x", "@", "b" >>, << "t", "e", "l", ":", "1" >>,
            << "d", "a", "t", "a", ":", ",", "x" >>, << " ", " " >>, << " ", "/", "p", "/", " " >> >>,
         << << "#", "f", "r", "a", "g" >>, << "/", "s", "t", "y", "l", "e", ".", "c", "s", "s" >>, << "j", "a", "v", "a", "s", "c", "r", "i", "p", "t", ":", "y" >> >>,
         << >>, << >>, << >>)

\* one anchor, one data-href, one JSON-LD object, one inline script
PageFour ==
    Page(300, << << "/", "a", "1" >> >>, << >>, << >>, << << "h", "t", "t", "p", "s", ":", "/", "/", "b", "/", "d", "h" >> >>,
         << Script(LdJson, JsonDumps(DocOrg)),
            Script("", << "v", "a", "r", " ", "u", " ", "=", " ", "'", "h", "t", "t", "p", ":", "/", "/",
                          "c", "/", "s", "#", "x", "'", ";", " ", "g", "o", "(", "u", ")" >>) >>)

\* a JSON-LD block that is no JSON, beside a well-formed one
PageBrokenLd ==
    Page(250, << << "/", "o", "k" >> >>, << >>, << >>, << >>,
         << BrokenLd, Script(LdJson, JsonDumps(DocSameAs)) >>)

\* routerlink and data-href values, a JSON-LD list, an empty script
PageRouter ==
    Page(180, << >>, << >>, << << "/", "r" >>, << " " >> >>, << << "j", "a", "v", "a", "s", "c", "r", "i", "p", "t", ":", "x" >>, << "/", "d", "h", "/" >> >>,
         << Script(LdJson, JsonDumps(DocList)), Script("", << >>) >>)

\* anchors that clean to one URL
PageDup ==
    Page(90, << << "/", "p" >>, << "/", "p", "/" >>, << "/", "p", "#", "x" >>, << "h", "t", "t", "p", ":", "/", "/", "a", "/", "p" >> >>, << >>, << >>, << >>, << >>)

Pages == {PageEmpty, PageTwoAnchors, PageSkips, PageFour, PageBrokenLd, PageRouter, PageDup}

\* Status codes: those fetch_page names, and one of each other class.
PassStatuses == {101, 200, 300}
FailStatuses == {401, 403, 404, 410, 500}

ReasonPhrase(status) ==
    CASE status = 101 -> << "S", "w", "i", "t", "c", "h", "i", "n", "g", " ", "P", "r", "o", "t", "o", "c",
                            "o", "l", "s" >>
      [] status = 200 -> << "O", "K" >>
      [] status = 300 -> << "M", "u", "l", "t", "i", "p", "l", "e", " ", "C", "h", "o", "i", "c", "e", "s" >>
      [] status = 401 -> << "U", "n", "a", "u", "t", "h", "o", "r", "i", "z", "e", "d" >>
      [] status = 403 -> << "F", "o", "r", "b", "i", "d", "d", "e", "n" >>
      [] status = 404 -> << "N", "o", "t", " ", "F", "o", "u", "n", "d" >>
      [] status = 410 -> << "G", "o", "n", "e" >>
      [] OTHER -> << "I", "n", "t", "e", "r", "n", "a", "l", " ", "S", "e", "r", "v", "e", "r", " ",
                     "E", "r", "r", "o", "r" >>

HtmlHeaders == [x \in {"Content-Type"} |-> "text/html"]
NoHeaders == [x \in {} |-> "text/html"]

Response(status, url, headers, page, parsers_failing) ==
    [kind |-> "response", status |-> status, reason |-> ReasonPhrase(status),
     url |-> url, headers |-> headers, page |-> page,
     parsers_failing |-> parsers_failing, text |-> << >>]

Raised(kind, text) ==
    [kind |-> kind, status |-> 0, reason |-> << >>, url |-> << >>,
     headers |-> NoHeaders, page |-> PageEmpty, parsers_failing |-> 0, text |-> text]

Exceptions ==
    { Raised("Timeout", << >>), Raised("ConnectionError", << >>),
      Raised("TooManyRedirects", << >>),
      Raised("RequestException", << "I", "n", "v", "a", "l", "i", "d", " ", "U", "R", "L" >>),
      Raised("Exception", << "b", "o", "o", "m" >>) }

\* The body of a response with status s, p being the page the site serves:
\* an informational response has none.
Body(s, p) == IF s < 200 THEN PageEmpty ELSE p

\* What session.get(target) may do for a call on a fresh instance.
PageOutcomes(target) ==
    {Response(s, u, HtmlHeaders, Body(s, p), 0) :
        s \in PassStatuses, u \in {target, RedirectURL}, p \in Pages}
    \cup {Response(200, target, HtmlHeaders, PageTwoAnchors, k) : k \in 1..Len(Parsers)}
    \cup {Response(s, u, h, PageEmpty, 0) :
            s \in FailStatuses, u \in {target, RedirectURL}, h \in {HtmlHeaders, NoHeaders}}
    \cup Exceptions

\* What session.get(target) may do for the calls of an instance that is called
\* again and again: every status and every exception, on fewer pages.
SessionOutcomes(target) ==
    {Response(s, target, HtmlHeaders, Body(s, PageTwoAnchors), 0) : s \in PassStatuses}
    \cup {Response(200, target, HtmlHeaders, PageTwoAnchors, Len(Parsers))}
    \cup {Response(s, target, HtmlHeaders, PageEmpty, 0) : s \in FailStatuses}
    \cup {Response(403, RedirectURL, NoHeaders, PageEmpty, 0)}
    \cup Exceptions

Outcomes(target, session) ==
    IF session THEN SessionOutcomes(target) ELSE PageOutcomes(target)

\* page is what driver.get(target_url) and driver.page_source would give:
\* "rendered" a loaded page of at least 100 characters, "short" a loaded page
\* of fewer, "unreachable" a load that raises.
BrowserEnv(selenium, driver, quit_raises, page) ==
    [selenium |-> selenium, driver |-> driver, quit_raises |-> quit_raises, page |-> page]

\* quit is called on a driver only; without selenium no driver is looked for;
\* without a driver there is no page.
BrowserEnvs ==
    {BrowserEnv(FALSE, "none", FALSE, "none"), BrowserEnv(TRUE, "none", FALSE, "none")}
    \cup {BrowserEnv(TRUE, d, q, pg) :
            d \in {"system", "webdriver-manager", "auto-detect"}, q \in BOOLEAN,
            pg \in {"rendered", "short", "unreachable"}}

\* The arguments of the calls.
UrlArgs == {None, << "h", "t", "t", "p", "s", ":", "/", "/", "b", "/", "p" >>}
AllFlags == BOOLEAN \X BOOLEAN

\* The defaults of extract_links and of get_all_links for filter_domain and
\* include_external.
ExtractDefaults == {<< TRUE, TRUE >>}
GetAllDefaults == {<< FALSE, TRUE >>}

\* The URLs the constructor is given.
CtorURLs == {<< "h", "t", "t", "p", ":", "/", "/", "a", "/" >>}

(***************************************************************************)
(* The instance and the calls on it                                        *)
(***************************************************************************)
\* No request is being handled.
ServerIdle ==
    /\ handlers = << >>
    /\ instances = << >>

UrlIdle ==
    /\ raw = << >>
    /\ cleaned = None
    /\ recleaned = None
    /\ upc = "idle"
    /\ valid = FALSE
    /\ same = FALSE

\* LinkExtractor(base_url): __init__
Init ==
    /\ base_url \in {RStrip(u, "/") : u \in CtorURLs}
    /\ diagnostics = EmptyDict
    /\ last_error = None
    /\ call = [op |-> "none"]
    /\ ret_links = {}
    /\ ret_diag = EmptyDict
    /\ response = NoReply
    /\ UrlIdle
    /\ ServerIdle

\* links, diagnostics = extractor.extract_links(url, filter_domain, include_external)
ExtractLinks(urls, flags, session) ==
    \E url \in urls, fl \in flags :
        \E o \in Outcomes(TargetUrl(url, base_url), session) :
            \E r \in {extract_links(url, fl[1], fl[2], o, base_url, diagnostics, last_error)} :
               /\ diagnostics' = r.diagnostics
               /\ last_error' = r.last_error
               /\ ret_links' = r.links
               /\ ret_diag' = r.ret_diag
               /\ call' = [op |-> "extract_links", url |-> url, filter_domain |-> fl[1],
                           include_external |-> fl[2], outcome |-> o,
                           requests |-> r.requests]
               /\ UNCHANGED <<base_url, response>>
               /\ UNCHANGED <<urlVars, serverVars>>

\* links, diagnostics = extractor.get_all_links(filter_domain, include_external)
GetAllLinks(flags, session) ==
    \E fl \in flags :
        \E o \in Outcomes(base_url, session) :
            \E r \in {extract_links(None, fl[1], fl[2], o, base_url, diagnostics, last_error)} :
               /\ diagnostics' = r.diagnostics
               /\ last_error' = r.last_error
               /\ ret_links' = Sorted(r.links)
               /\ ret_diag' = r.ret_diag
               /\ call' = [op |-> "get_all_links", url |-> None, filter_domain |-> fl[1],
                           include_external |-> fl[2], outcome |-> o,
                           requests |-> r.requests]
               /\ UNCHANGED <<base_url, response>>
               /\ UNCHANGED <<urlVars, serverVars>>

\* links, diagnostics = extractor.extract_links_with_browser(...)
ExtractLinksWithBrowser ==
    \E e \in BrowserEnvs :
        \E r \in {extract_links_with_browser(e, diagnostics)} :
           /\ diagnostics' = r.diagnostics
           /\ ret_links' = r.links
           /\ ret_diag' = r.ret_diag
           /\ call' = [op |-> "extract_links_with_browser", env |-> e,
                       escaped |-> r.escaped, quit_calls |-> r.quit_calls]
           /\ UNCHANGED <<base_url, last_error, response>>
           /\ UNCHANGED <<urlVars, serverVars>>

\* One instance, called any number of times with the default arguments.
Next ==
    \/ ExtractLinks({None}, ExtractDefaults, TRUE)
    \/ GetAllLinks(GetAllDefaults, TRUE)
    \/ ExtractLinksWithBrowser

Spec == Init /\ [][Next]_vars

\* A fresh instance called once, on any page, with any arguments.
NextPage ==
    /\ call.op = "none"
    /\ \/ ExtractLinks(UrlArgs, AllFlags, FALSE)
       \/ GetAllLinks(AllFlags, FALSE)

SpecPage == Init /\ [][NextPage]_vars

\* The links of the last call as a set, whichever operation returned them.
RetLinkSet ==
    IF call.op = "get_all_links" THEN {ret_links[i] : i \in 1..Len(ret_links)}
    ELSE ret_links

(***************************************************************************)
(* api.py: the handler of POST /api/extract                                *)
(*                                                                         *)
(* The request body is what request.get_json() makes of it: t = "invalid"  *)
(* when it raises (no JSON), otherwise the JSON value, an object being a   *)
(* function from its keys to JSON values.                                  *)
(***************************************************************************)
JBool(b) == [t |-> "bool", b |-> b]
JNull == [t |-> "null"]
NotJson == [t |-> "invalid"]
ApiObj(d) == [t |-> "obj", d |-> d]

\* bool(v) of a JSON value
Truthy(v) ==
    CASE v.t = "str" -> v.s # << >>
      [] v.t = "num" -> v.n # 0
      [] v.t = "list" -> v.l # << >>
      [] v.t = "bool" -> v.b
      [] v.t = "obj" -> DOMAIN v.d # {}
      [] OTHER -> FALSE

\* d.get(k, default)
DictGet(d, k, default) == IF k \in DOMAIN d THEN d[k] ELSE default

\* type(v).__name__
TypeName(v) ==
    CASE v.t = "str" -> << "s", "t", "r" >>
      [] v.t = "num" -> << "i", "n", "t" >>
      [] v.t = "list" -> << "l", "i", "s", "t" >>
      [] v.t = "bool" -> << "b", "o", "o", "l" >>
      [] v.t = "obj" -> << "d", "i", "c", "t" >>
      [] OTHER -> << "N", "o", "n", "e", "T", "y", "p", "e" >>

\* str(e) of the AttributeError for v.attr
AttributeErrorText(v, attr) ==
    << "'" >> \o TypeName(v) \o << "'", " ", "o", "b", "j", "e", "c", "t", " ", "h", "a", "s", " ", "n", "o", " ",
                                   "a", "t", "t", "r", "i", "b", "u", "t", "e", " ", "'" >> \o attr \o << "'" >>

\* str(e) of the BadRequest get_json raises
TextBadRequest == << "4", "0", "0", " ", "B", "a", "d", " ", "R", "e", "q", "u", "e", "s", "t", ":",
                     " ", "T", "h", "e", " ", "b", "r", "o", "w", "s", "e", "r", " ", "(", "o", "r",
                     " ", "p", "r", "o", "x", "y", ")", " ", "s", "e", "n", "t", " ", "a", " ", "r",
                     "e", "q", "u", "e", "s", "t", " ", "t", "h", "a", "t", " ", "t", "h", "i", "s",
                     " ", "s", "e", "r", "v", "e", "r", " ", "c", "o", "u", "l", "d", " ", "n", "o",
                     "t", " ", "u", "n", "d", "e", "r", "s", "t", "a", "n", "d", "." >>

MsgUrlRequired == << "U", "R", "L", " ", "i", "s", " ", "r", "e", "q", "u", "i", "r", "e", "d" >>
MsgInvalidFormat == << "I", "n", "v", "a", "l", "i", "d", " ", "U", "R", "L", " ", "f", "o", "r", "m",
                       "a", "t", ".", " ", "U", "R", "L", " ", "m", "u", "s", "t", " ", "s", "t", "a",
                       "r", "t", " ", "w", "i", "t", "h", " ", "h", "t", "t", "p", ":", "/", "/", " ",
                       "o", "r", " ", "h", "t", "t", "p", "s", ":", "/", "/" >>

\* traceback.format_exc()
Traceback == << "T", "r", "a", "c", "e", "b", "a", "c", "k", " ", "(", "m", "o", "s", "t", " ",
                "r", "e", "c", "e", "n", "t", " ", "c", "a", "l", "l", " ", "l", "a", "s", "t",
                ")", ":" >>

\* return jsonify({'success': False, 'error': msg}), 400
ClientError(msg) == [status |-> 400, body |-> [success |-> FALSE, error |-> msg]]

\* The except clause: return jsonify({... 'traceback': ...}), 500
Fault(text) ==
    [status |-> 500, body |-> [success |-> FALSE, error |-> text, traceback |-> Traceback]]

\* The strings of a list.  sorted(list(links)) of the handler is
\* Sorted(links) for the set the browser call returns and Sorted(Elems(links))
\* for the list get_all_links returns, which holds no string twice.
Elems(links) == {links[i] : i \in 1..Len(links)}

\* The handler's reply with the set of links and the diagnostics of the call,
\* always with status 200 and success true: a mutant.
ApiReplyAlwaysOk(links, diag) ==
    [status |-> 200,
     body |-> [success |-> TRUE, links |-> Sorted(links),
               count |-> Len(Sorted(links)), diagnostics |-> diag]]

\* The handler's reply with the set of links and the diagnostics of the call.
ApiReply(links, diag) ==
    IF "error" \in DOMAIN diag /\ diag["error"] # << >>
    THEN [status |-> 400,
          body |-> [success |-> FALSE, error |-> diag["error"], links |-> Sorted(links),
                    count |-> Len(Sorted(links)), diagnostics |-> diag]]
    ELSE [status |-> 200,
          body |-> [success |-> TRUE, links |-> Sorted(links),
                    count |-> Len(Sorted(links)), diagnostics |-> diag]]

\* The handler up to the construction of the extractor: its reply when it
\* ends there, NoReply when the URL passes.
ApiUrl(data) == DictGet(data.d, "url", JNull)

ApiValidate(data) ==
    IF data.t = "invalid" THEN Fault(TextBadRequest)
    ELSE IF data.t # "obj" THEN Fault(AttributeErrorText(data, << "g", "e", "t" >>))
    ELSE IF ~ Truthy(ApiUrl(data)) THEN ClientError(MsgUrlRequired)
    ELSE IF ApiUrl(data).t # "str" THEN Fault(AttributeErrorText(ApiUrl(data), << "s", "t", "a", "r", "t", "s", "w", "i", "t", "h" >>))
    ELSE IF ~ (StartsWith(ApiUrl(data).s, << "h", "t", "t", "p", ":", "/", "/" >>) \/ StartsWith(ApiUrl(data).s, << "h", "t", "t", "p", "s", ":", "/", "/" >>))
    THEN ClientError(MsgInvalidFormat)
    ELSE NoReply

ApiUseBrowser(data) == Truthy(DictGet(data.d, "use_browser", JBool(FALSE)))

\* What the handler leaves: its reply, whether it constructed a LinkExtractor
\* and whether that one fetched, and the extractor's fields and results.
ApiLeft(reply, constructed, fetched, base, r, lasterr) ==
    [response |-> reply, constructed |-> constructed, fetched |-> fetched,
     base_url |-> base, diagnostics |-> r.diagnostics, last_error |-> lasterr,
     ret_links |-> r.links, ret_diag |-> r.ret_diag]

ApiEnded(reply) ==
    ApiLeft(reply, FALSE, FALSE, None,
            [links |-> {}, ret_diag |-> EmptyDict, diagnostics |-> EmptyDict], None)

\* extractor.get_all_links(filter_domain, include_external) of the handler
ApiGotAll(r, base) ==
    ApiLeft(ApiReply(Elems(Sorted(r.links)), r.ret_diag), TRUE, TRUE, base,
            [links |-> Sorted(r.links), ret_diag |-> r.ret_diag, diagnostics |-> r.diagnostics],
            r.last_error)

\* extractor.extract_links_with_browser(...) of the handler; the browser is
\* never sent to the page (see extract_links_with_browser)
ApiBrowsed(r, base) == ApiLeft(ApiReply(r.links, r.ret_diag), TRUE, FALSE, base, r, None)

\* extractor = LinkExtractor(url, timeout=timeout) and the call on it
ApiExtractor(data, base, o, e) ==
    IF ApiUseBrowser(data)
    THEN ApiBrowsed(extract_links_with_browser(e, EmptyDict), base)
    ELSE ApiGotAll(extract_links(None,
                                 Truthy(DictGet(data.d, "filter_domain", JBool(FALSE))),
                                 Truthy(DictGet(data.d, "include_external", JBool(TRUE))),
                                 o, base, EmptyDict, None),
                   base)

\* extract_links() of api.py under the network's outcome o and the browser
\* environment e
api_extract(data, o, e) ==
    IF ApiValidate(data) # NoReply THEN ApiEnded(ApiValidate(data))
    ELSE ApiExtractor(data, RStrip(ApiUrl(data).s, "/"), o, e)

\* The request bodies.
ApiFlags ==
    { [x \in {} |-> JNull],
      ("filter_domain" :> JBool(TRUE)) @@ ("include_external" :> JBool(FALSE)),
      ("filter_domain" :> JBool(TRUE)),
      ("use_browser" :> JBool(TRUE)) }

ApiUrlValues ==
    { JStr(<< "h", "t", "t", "p", ":", "/", "/", "a", "/" >>), JStr(<< "h", "t", "t", "p", "s", ":", "/", "/", "b", "/", "p" >>), JStr(<< >>), JStr(<< "f", "t", "p", ":", "/", "/", "a", "/" >>),
      JStr(<< "a", ".", "c", "o", "m" >>), JStr(<< "H", "T", "T", "P", ":", "/", "/", "a", "/" >>), JStr(<< " ", "h", "t", "t", "p", ":", "/", "/", "a", "/" >>), JNull, JNum(123), JNum(0),
      JBool(TRUE), JList(<< JStr(<< "h", "t", "t", "p", ":", "/", "/", "a", "/" >>) >>) }

ApiBodies ==
    {NotJson, JNull, JList(<< >>)}
    \cup {ApiObj(f) : f \in ApiFlags}
    \cup {ApiObj(("url" :> u) @@ f) : u \in ApiUrlValues, f \in ApiFlags}

\* No fetch and no browser: the placeholders of a request that needs none.
NoOutcome == Raised("none", << >>)
NoEnv == BrowserEnv(FALSE, "none", FALSE, "none")

\* What the network and the browser environment may do during a request.
ApiWorlds(data) ==
    IF ApiValidate(data) # NoReply THEN {<< NoOutcome, NoEnv >>}
    ELSE IF ApiUseBrowser(data) THEN {<< NoOutcome, e >> : e \in BrowserEnvs}
    ELSE {<< o, NoEnv >> : o \in SessionOutcomes(RStrip(ApiUrl(data).s, "/"))}

\* The server before any request: no extractor exists.
InitApi ==
    /\ base_url = None
    /\ diagnostics = EmptyDict
    /\ last_error = None
    /\ call = [op |-> "none"]
    /\ ret_links = {}
    /\ ret_diag = EmptyDict
    /\ response = NoReply
    /\ UrlIdle
    /\ ServerIdle

\* POST /api/extract with body data.  The handler keeps nothing between two
\* requests: each one builds its own extractor.
ApiExtract ==
    /\ UNCHANGED <<urlVars, serverVars>>
    /\ \E data \in ApiBodies :
          \E w \in ApiWorlds(data) :
              \E r \in {api_extract(data, w[1], w[2])} :
                 /\ response' = r.response
                 /\ base_url' = r.base_url
                 /\ diagnostics' = r.diagnostics
                 /\ last_error' = r.last_error
                 /\ ret_links' = r.ret_links
                 /\ ret_diag' = r.ret_diag
                 /\ call' = [op |-> "api_extract", data |-> data, outcome |-> w[1],
                             env |-> w[2], constructed |-> r.constructed,
                             fetched |-> r.fetched]

NextApi == ApiExtract

SpecApi == InitApi /\ [][NextApi]_vars

(***************************************************************************)
(* The evaluation of _clean_url on one input: the specification SpecClean. *)
(***************************************************************************)
\* The longest tail a raw URL of the input set carries.
MaxTail == 3

TailChars == {"/", "#", "?", "p"}

Tails == UNION {[1..n -> TailChars] : n \in 0..MaxTail}

Heads ==
    { HTTP \o SchemeSep \o << "a" >>,
      HTTPS \o SchemeSep \o << "a" >>,
      HTTP \o SchemeSep \o << "a", "/", "p" >>,
      HTTP \o SchemeSep \o << "a", "/", "p", "?", "q" >>,
      HTTP \o SchemeSep,
      << "m", "a", "i", "l", "t", "o", ":", "x" >>,
      << "/", "p" >>,
      << >> }

RawURLs == {h \o t : h \in Heads, t \in Tails}

InitClean ==
    /\ raw \in RawURLs
    /\ cleaned = None
    /\ recleaned = None
    /\ upc = "in"
    /\ valid = FALSE
    /\ same = FALSE
    /\ base_url \in {RStrip(u, "/") : u \in CtorURLs}
    /\ diagnostics = EmptyDict
    /\ last_error = None
    /\ call = [op |-> "none"]
    /\ ret_links = {}
    /\ ret_diag = EmptyDict
    /\ response = NoReply
    /\ ServerIdle

\* cleaned = self._clean_url(raw)
CleanUrl ==
    /\ upc = "in"
    /\ cleaned' = _clean_url(raw)
    /\ upc' = "cleaned"
    /\ UNCHANGED <<raw, recleaned, valid, same>>
    /\ UNCHANGED <<extractorVars, serverVars>>

\* recleaned = self._clean_url(cleaned), for a cleaned that is a str
CleanAgain ==
    /\ upc = "cleaned"
    /\ cleaned # None
    /\ recleaned' = _clean_url(cleaned)
    /\ upc' = "recleaned"
    /\ UNCHANGED <<raw, cleaned, valid, same>>
    /\ UNCHANGED <<extractorVars, serverVars>>

NextClean == CleanUrl \/ CleanAgain

SpecClean == InitClean /\ [][NextClean]_vars

(***************************************************************************)
(* The evaluation of _is_valid_url, _clean_url and _is_same_domain on one  *)
(* URL: the specification SpecUrl.                                         *)
(***************************************************************************)
\* n times the character 'p'
Pad(n) == [i \in 1..n |-> "p"]

\* URLs around the length ceiling: one character over it, exactly at it, over
\* it by a fragment only, and over it by a trailing slash only.
LongHead == << "h", "t", "t", "p", ":", "/", "/", "a", "/" >>
OverLong == LongHead \o Pad(MaxUrlLen + 1 - Len(LongHead))
AtLimit == LongHead \o Pad(MaxUrlLen - Len(LongHead))
OverLongByFragment == << "h", "t", "t", "p", ":", "/", "/", "a", "/", "p", "#" >> \o Pad(MaxUrlLen)
OverLongBySlash == AtLimit \o << "/" >>

\* Inputs by scheme and host.
SchemeProbes ==
    { << "n", "o", "t", "-", "a", "-", "u", "r", "l" >>, << "j", "a", "v", "a", "s", "c", "r", "i", "p", "t", ":", "a", "l", "e", "r", "t",
                        "(", "1", ")" >>, << "m", "a", "i", "l", "t", "o", ":", "t", "e", "s", "t", "@", "e", "x", "a", "m",
                                                 "p", "l", "e", ".", "c", "o", "m" >>,
      << "f", "t", "p", ":", "/", "/", "a", "/", "x" >>, << "h", "t", "t", "p", ":", "/", "/", "/", "p" >>, << "/", "/", "a", "/", "p" >>, << "h", "t", "t", "p", "s", ":", "/", "/", "e", "x", "a", "m", "p", "l", "e", ".",
                                                  "c", "o", "m" >>,
      << "h", "t", "t", "p", ":", "/", "/", "e", "x", "a", "m", "p", "l", "e", ".", "c",
         "o", "m", "/", "p", "a", "g", "e" >>, << "H", "T", "T", "P", ":", "/", "/", "a", "/", "p" >>, << "h", "t", "t", "p", "s", ":", "/", "/", "e", "x", "a", "m", "p", "l", "e", ".",
                                                      "c", "o", "m", "/", "p", "a", "g", "e", "#", "s", "e", "c", "t", "i", "o", "n" >>,
      << "h", "t", "t", "p", "s", ":", "/", "/" >>, << "h", "t", "t", "p", ":", "a" >> }

\* Inputs with percent-encoding.
PercentProbes ==
    { << "h", "t", "t", "p", ":", "/", "/", "a", "/", "%", "2", "2", "%", "3", "E" >>, << "h", "t", "t", "p", ":", "/", "/", "a", "/", "x", "%", "3", "C", "/", "a", "%",
                              "3", "E" >>, << "h", "t", "t", "p", ":", "/", "/", "a", "/", "%", "3", "C", "h", "r", "e", "f",
                                                      "%", "3", "D", "x" >>,
      << "h", "t", "t", "p", ":", "/", "/", "a", "/", "?", "q", "=", "h", "r", "e", "f",
         "%", "3", "D", "x" >>, << "h", "t", "t", "p", ":", "/", "/", "a", "/", "%", "3", "C", "H", "R", "E", "F",
                                   "%", "3", "D", "x" >>, << "h", "t", "t", "p", ":", "/", "/", "a", "/", "%", "3", "C", "h", "r", "e", "f",
                                                             "%", "3", "d", "x" >>,
      << "h", "t", "t", "p", ":", "/", "/", "a", "/", "%", "2", "2", "%", "3", "e" >>, << "h", "t", "t", "p", ":", "/", "/", "a", "/", "%", "3", "c", "/", "A" >>, << "h", "t", "t", "p", ":", "/", "/", "a", "/", "a", "%", "2", "0", "b" >>,
      << "h", "t", "t", "p", ":", "/", "/", "a", "/", "%", "3", "C", "b", "%", "3", "E" >>, << "h", "t", "t", "p", ":", "/", "/", "a", "/", "%", "3", "E" >>, << "h", "t", "t", "p", ":", "/", "/", "a", "/", "%", "2", "0", "%", "2", "F" >> }

\* Inputs with more than one scheme prefix.
PrefixProbes ==
    { << "h", "t", "t", "p", ":", "/", "/", "a", "/", "h", "t", "t", "p", ":", "/", "/",
         "b" >>, << "h", "t", "t", "p", "s", ":", "/", "/", "a", "/", "h", "t", "t", "p", "s", ":",
                                "/", "/", "b" >>, << "h", "t", "t", "p", "s", ":", "/", "/", "a", "/", "h", "t", "t", "p", ":", "/",
                                                         "/", "b" >>,
      << "h", "t", "t", "p", ":", "/", "/", "a", "/", "?", "u", "=", "h", "t", "t", "p",
         "s", ":", "/", "/", "b" >>, << "h", "t", "t", "p", ":", "/", "/", "a", "/", "h", "t", "t", "p", ":", "/", "b" >>, << "h", "t", "t", "p", ":", "/", "/", "h", "t", "t", "p", ":", "/", "/", "a" >>,
      << "h", "t", "t", "p", "s", ":", "/", "/", "a", "/", "#", "h", "t", "t", "p", ":",
         "/", "/", "b" >> }

\* Inputs by host, for the comparison with the base URL.
HostProbes ==
    { << "h", "t", "t", "p", "s", ":", "/", "/", "a", ".", "c", "o", "m", "/", "x" >>, << "h", "t", "t", "p", "s", ":", "/", "/", "b", ".", "c", "o", "m" >>, << "h", "t", "t", "p", ":", "/", "/", "a", ".", "c", "o", "m", "/", "y", "?", "z",
                                                 "=", "1" >>, << "f", "t", "p", ":", "/", "/", "a", ".", "c", "o", "m" >>,
      << "h", "t", "t", "p", "s", ":", "/", "/", "a", ".", "c", "o", "m", ":", "8", "0",
         "8", "0", "/", "x" >>, << "h", "t", "t", "p", "s", ":", "/", "/", "u", "@", "a", ".", "c", "o", "m", "/" >>, << "h", "t", "t", "p", "s", ":", "/", "/", "a", ".", "c", "o", "m", ".", "b", ".",
                                                         "c", "o", "m", "/" >>,
      << "/", "a", "b", "o", "u", "t" >>, << "h", "t", "t", "p", ":", "/", "/", "a", "/", "p" >>, << "h", "t", "t", "p", "s", ":", "/", "/", "b", ".", "c", "o", "m", "/", "x", "/",
                                     "y" >> }

ProbeURLs ==
    SchemeProbes \cup PercentProbes \cup PrefixProbes \cup HostProbes
    \cup {OverLong, AtLimit, OverLongByFragment, OverLongBySlash}

\* The URLs the constructor is given in these evaluations.
ProbeBases == { << "h", "t", "t", "p", "s", ":", "/", "/", "a", ".", "c", "o", "m" >>, << "h", "t", "t", "p", ":", "/", "/", "a", "/" >>, << "h", "t", "t", "p", "s", ":", "/", "/", "b", ".", "c", "o", "m", "/", "x", "/" >> }

InitUrl ==
    /\ raw \in RawURLs \cup ProbeURLs
    /\ cleaned = None
    /\ recleaned = None
    /\ upc = "in"
    /\ valid = FALSE
    /\ same = FALSE
    /\ base_url \in {RStrip(u, "/") : u \in ProbeBases}
    /\ diagnostics = EmptyDict
    /\ last_error = None
    /\ call = [op |-> "none"]
    /\ ret_links = {}
    /\ ret_diag = EmptyDict
    /\ response = NoReply
    /\ ServerIdle

\* valid = self._is_valid_url(raw)
IsValidUrl ==
    /\ upc = "in"
    /\ valid' = _is_valid_url(raw)
    /\ upc' = "validated"
    /\ UNCHANGED <<raw, cleaned, recleaned, same>>
    /\ UNCHANGED <<extractorVars, serverVars>>

\* same = self._is_same_domain(raw)
IsSameDomain ==
    /\ upc = "in"
    /\ same' = _is_same_domain(base_url, raw)
    /\ upc' = "compared"
    /\ UNCHANGED <<raw, cleaned, recleaned, valid>>
    /\ UNCHANGED <<extractorVars, serverVars>>

NextUrl == IsValidUrl \/ CleanUrl \/ IsSameDomain

SpecUrl == InitUrl /\ [][NextUrl]_vars

\* Instances for each of the model's URLs, extract_links_with_browser being
\* called on one any number of times.
BrowserBases == CtorURLs \cup ProbeBases \cup (UrlArgs \ {None})

InitBrowser ==
    /\ base_url \in {RStrip(u, "/") : u \in BrowserBases}
    /\ diagnostics = EmptyDict
    /\ last_error = None
    /\ call = [op |-> "none"]
    /\ ret_links = {}
    /\ ret_diag = EmptyDict
    /\ response = NoReply
    /\ UrlIdle
    /\ ServerIdle

NextBrowser == ExtractLinksWithBrowser

SpecBrowser == InitBrowser /\ [][NextBrowser]_vars

(***************************************************************************)
(* api.py: two requests to /api/extract handled at a time                  *)
(*                                                                         *)
(* The server runs each request in a thread of its own.  A handler's       *)
(* locals (data, extractor, links, diagnostics) live in its frame; the     *)
(* LinkExtractor it constructs is an object on the heap, which holds       *)
(* base_url, diagnostics and last_error.  A handler advances in steps:     *)
(* reading and validating the body, constructing the extractor, fetching   *)
(* (fetch_page assigns self.diagnostics), and the rest of the call up to   *)
(* the reply; the steps of the two handlers interleave freely.             *)
(***************************************************************************)
RequestIds == {1, 2}

\* The other handler.
Peer(i) == CHOOSE j \in RequestIds : j # i

\* The object a constructor call of handler i would give when the module kept
\* one extractor for all requests: a mutant.
NewInstanceShared(i) == 1

\* The object extractor = LinkExtractor(url, timeout=timeout) gives handler
\* i: a new one at each call, named here after the handler.
NewInstance(i) == i

NoInstance == [base_url |-> None, diagnostics |-> EmptyDict, last_error |-> None]

Idle == [pc |-> "idle"]

\* The bodies and what the network and the browser do during the requests.
ConcurrentBodies ==
    { ApiObj([x \in {} |-> JNull]),
      ApiObj("url" :> JStr(<< "h", "t", "t", "p", ":", "/", "/", "a", "/" >>)),
      ApiObj(("url" :> JStr(<< "h", "t", "t", "p", "s", ":", "/", "/", "b", "/", "p" >>)) @@ ("filter_domain" :> JBool(TRUE))
             @@ ("include_external" :> JBool(FALSE))),
      ApiObj(("url" :> JStr(<< "h", "t", "t", "p", ":", "/", "/", "a", "/" >>)) @@ ("use_browser" :> JBool(TRUE))) }

ConcurrentOutcomes(target) ==
    { Response(200, target, HtmlHeaders, PageTwoAnchors, 0),
      Response(200, RedirectURL, HtmlHeaders, PageFour, 0),
      Response(404, target, HtmlHeaders, PageEmpty, 0),
      Raised("Timeout", << >>) }

ConcurrentEnvs == {BrowserEnv(FALSE, "none", FALSE, "none"), BrowserEnv(TRUE, "system", FALSE, "rendered")}

ConcurrentWorlds(data) ==
    IF ApiValidate(data) # NoReply THEN {<< NoOutcome, NoEnv >>}
    ELSE IF ApiUseBrowser(data) THEN {<< NoOutcome, e >> : e \in ConcurrentEnvs}
    ELSE {<< o, NoEnv >> : o \in ConcurrentOutcomes(RStrip(ApiUrl(data).s, "/"))}

\* The server with both handlers waiting for their request.
InitServer ==
    /\ base_url = None
    /\ diagnostics = EmptyDict
    /\ last_error = None
    /\ call = [op |-> "none"]
    /\ ret_links = {}
    /\ ret_diag = EmptyDict
    /\ response = NoReply
    /\ UrlIdle
    /\ handlers = [i \in RequestIds |-> Idle]
    /\ instances = [i \in RequestIds |-> NoInstance]

\* Handler i with its reply; overlapped: whether the other handler had an
\* extractor in use at that time.
Replied(h, reply, peer) ==
    [pc |-> "done", data |-> h.data, outcome |-> h.outcome, env |-> h.env,
     reply |-> reply, overlapped |-> peer.pc \in {"constructed", "fetched"}]

\* data = request.get_json() up to the validation of url
Receive(i) ==
    /\ handlers[i].pc = "idle"
    /\ \E data \in ConcurrentBodies :
          \E w \in ConcurrentWorlds(data) :
              handlers' = [handlers EXCEPT ![i] =
                  IF ApiValidate(data) # NoReply
                  THEN Replied([data |-> data, outcome |-> w[1], env |-> w[2]],
                               ApiValidate(data), handlers[Peer(i)])
                  ELSE [pc |-> "validated", data |-> data, outcome |-> w[1], env |-> w[2]]]
    /\ UNCHANGED <<instances, extractorVars, urlVars>>

\* extractor = LinkExtractor(url, timeout=timeout)
Construct(i) ==
    /\ handlers[i].pc = "validated"
    /\ handlers' = [handlers EXCEPT ![i] =
          [pc |-> "constructed", data |-> handlers[i].data, outcome |-> handlers[i].outcome,
           env |-> handlers[i].env, extractor |-> NewInstance(i)]]
    /\ instances' = [instances EXCEPT ![NewInstance(i)] =
          [base_url |-> RStrip(ApiUrl(handlers[i].data).s, "/"),
           diagnostics |-> EmptyDict, last_error |-> None]]
    /\ UNCHANGED <<extractorVars, urlVars>>

\* get_all_links -> extract_links up to response, error = self.fetch_page(target_url)
Fetched(i, h, x, f) ==
    /\ handlers' = [handlers EXCEPT ![i] =
          [pc |-> "fetched", data |-> h.data, outcome |-> h.outcome, env |-> h.env,
           extractor |-> h.extractor, fetched |-> f]]
    /\ instances' = [instances EXCEPT ![h.extractor] =
          [base_url |-> x.base_url, diagnostics |-> f.diagnostics, last_error |-> f.last_error]]

Fetch(i) ==
    /\ handlers[i].pc = "constructed"
    /\ ~ ApiUseBrowser(handlers[i].data)
    /\ Fetched(i, handlers[i], instances[handlers[i].extractor],
               fetch_page(instances[handlers[i].extractor].base_url, handlers[i].outcome,
                          instances[handlers[i].extractor].diagnostics,
                          instances[handlers[i].extractor].last_error))
    /\ UNCHANGED <<extractorVars, urlVars>>

\* What fetch_page returned to the handler, with self.diagnostics and
\* self.last_error as the extractor x holds them now.
Refreshed(f, x) ==
    [response |-> f.response, error |-> f.error, requests |-> f.requests,
     diagnostics |-> x.diagnostics, last_error |-> x.last_error]

\* The rest of extract_links, of get_all_links and of the handler.
Finished(i, h, x, r) ==
    /\ handlers' = [handlers EXCEPT ![i] =
          Replied(h, ApiReply(Elems(Sorted(r.links)), r.ret_diag), handlers[Peer(i)])]
    /\ instances' = [instances EXCEPT ![h.extractor] =
          [base_url |-> x.base_url, diagnostics |-> r.diagnostics, last_error |-> r.last_error]]

Finish(i) ==
    /\ handlers[i].pc = "fetched"
    /\ Finished(i, handlers[i], instances[handlers[i].extractor],
                ExtractFetched(Truthy(DictGet(handlers[i].data.d, "filter_domain", JBool(FALSE))),
                               Truthy(DictGet(handlers[i].data.d, "include_external", JBool(TRUE))),
                               handlers[i].outcome,
                               instances[handlers[i].extractor].base_url,
                               Refreshed(handlers[i].fetched, instances[handlers[i].extractor])))
    /\ UNCHANGED <<extractorVars, urlVars>>

\* extractor.extract_links_with_browser(...) and the rest of the handler.
Browsed(i, h, x, r) ==
    /\ handlers' = [handlers EXCEPT ![i] = Replied(h, ApiReply(r.links, r.ret_diag), handlers[Peer(i)])]
    /\ instances' = [instances EXCEPT ![h.extractor] =
          [base_url |-> x.base_url, diagnostics |-> r.diagnostics, last_error |-> x.last_error]]

Browse(i) ==
    /\ handlers[i].pc = "constructed"
    /\ ApiUseBrowser(handlers[i].data)
    /\ Browsed(i, handlers[i], instances[handlers[i].extractor],
               extract_links_with_browser(handlers[i].env,
                                          instances[handlers[i].extractor].diagnostics))
    /\ UNCHANGED <<extractorVars, urlVars>>

NextServer ==
    \E i \in RequestIds :
        \/ Receive(i)
        \/ Construct(i)
        \/ Fetch(i)
        \/ Finish(i)
        \/ Browse(i)

SpecServer == InitServer /\ [][NextServer]_vars

(***************************************************************************)
(* Claims about _is_valid_url, _clean_url and _is_same_domain, under       *)
(* SpecUrl                                                                 *)
(***************************************************************************)
\* url has a scheme other than http and https, or none, or no host.
NoHttpHost(url) ==
    \/ UrlParse(url).scheme \notin {HTTP, HTTPS}
    \/ UrlParse(url).netloc = << >>

\* The number of scheme prefixes in url.
PrefixCount(url) == Count(url, << "h", "t", "t", "p", ":", "/", "/" >>) + Count(url, << "h", "t", "t", "p", "s", ":", "/", "/" >>)

\* url is an http or https URL with a host that no other rule of
\* _is_valid_url is about, percent-encoding apart.
PlainButPercent(url) ==
    /\ ~ NoHttpHost(url)
    /\ Len(url) <= MaxUrlLen
    /\ PrefixCount(url) <= 1
    /\ ~ \E i \in 1..Len(url) : url[i] \in {"<", ">", "\"", "'"}

\* url is a plain http or https URL with a host.
Plain(url) == PlainButPercent(url) /\ ~ Contains(url, << "%" >>)

\* C11 as stated: _is_valid_url and _clean_url reject every input without
\* scheme, with a scheme other than http and https, with an empty host or of
\* more than 2000 characters, and accept the plain http/https URLs with a host.
C11_Original ==
    /\ upc = "validated" =>
         /\ (NoHttpHost(raw) \/ Len(raw) > MaxUrlLen) => valid = FALSE
         /\ Plain(raw) => valid = TRUE
    /\ upc = "cleaned" =>
         /\ (NoHttpHost(raw) \/ Len(raw) > MaxUrlLen) => cleaned = None
         /\ Plain(raw) => cleaned # None

\* C11 as amended: the same, except that _clean_url measures the length
\* after it has cut the fragment and the trailing slashes: it rejects an input
\* that is still longer than 2000 characters then.
C11_Rejects ==
    /\ upc = "validated" =>
         /\ (NoHttpHost(raw) \/ Len(raw) > MaxUrlLen) => valid = FALSE
         /\ Plain(raw) => valid = TRUE
    /\ upc = "cleaned" =>
         /\ ( \/ NoHttpHost(raw)
              \/ Len(RStrip(SplitFirst(raw, "#"), "/")) > MaxUrlLen ) => cleaned = None
         /\ Plain(raw) => cleaned # None

\* C11's case: an input of 2001 characters was rejected by _clean_url, none
\* of them a fragment or a trailing slash.
C11_Witness ==
    /\ upc = "cleaned" /\ ~ NoHttpHost(raw)
    /\ Len(raw) = MaxUrlLen + 1 /\ RStrip(SplitFirst(raw, "#"), "/") = raw
    /\ cleaned = None

\* C12: _is_valid_url rejects every URL that contains '%22%3E', '%3C/a' or,
\* in any letter case, 'href%3D', whatever else it contains; a URL whose
\* percent-encoding is ordinary is not rejected for it.
C12_InjectionRejected ==
    upc = "validated" =>
        /\ ( \/ Contains(raw, << "%", "2", "2", "%", "3", "E" >>)
             \/ Contains(raw, << "%", "3", "C", "/", "a" >>)
             \/ Contains(Lower(raw), << "h", "r", "e", "f", "%", "3", "d" >>) ) => valid = FALSE
        /\ ( /\ PlainButPercent(raw)
             /\ ~ Contains(Lower(raw), << "%", "2", "2", "%", "3", "e" >>)
             /\ ~ Contains(Lower(raw), << "%", "3", "c", "/", "a" >>)
             /\ ~ Contains(Lower(raw), << "h", "r", "e", "f", "%", "3", "d" >>) ) => valid = TRUE

\* C13: no URL that _is_valid_url or _clean_url accepts holds more than one
\* scheme prefix: a second 'http://' or 'https://' anywhere makes it rejected.
C13_SinglePrefix ==
    /\ (upc = "validated" /\ PrefixCount(raw) > 1) => valid = FALSE
    /\ (upc = "cleaned" /\ cleaned # None) => PrefixCount(cleaned) <= 1

\* The host component of url: its network location without the user
\* information before '@' and without the port after ':'.
HostAt == "@"
HostPort(netloc) == IF Contains(netloc, << HostAt >>) THEN SplitRest(netloc, HostAt) ELSE netloc
Hostname(url) == SplitFirst(HostPort(UrlParse(url).netloc), ":")

\* C14: _is_same_domain(url) is true exactly when url and the base URL have
\* the identical host component, whatever their schemes and paths.
C14_SameHost ==
    upc = "compared" => (same <=> Hostname(raw) = Hostname(base_url))

(***************************************************************************)
(* Claims about the links extract_links returns, under SpecPage            *)
(***************************************************************************)
\* The last call was extract_links or get_all_links.
Extracted == call.op \in {"extract_links", "get_all_links"}

\* The last call asked for the links of the site's own domain only.
SameDomainOnly == Extracted /\ call.filter_domain /\ ~ call.include_external

\* C1: with filter_domain true and include_external false, every returned
\* link is accepted by _is_same_domain, whichever strategy discovered it.
C1_SameDomainLinks ==
    SameDomainOnly => \A u \in RetLinkSet : _is_same_domain(base_url, u)

\* What makes a str a CanonicalLink.
CanonicalLink(u) ==
    /\ UrlParse(u).scheme \in {HTTP, HTTPS}
    /\ UrlParse(u).netloc # << >>
    /\ ~ Contains(u, << "#" >>)
    /\ Len(u) <= MaxUrlLen
    /\ _clean_url(u) = u

\* C2: every element of the set extract_links returns is a CanonicalLink:
\* http or https, with a host, without '#', of at most 2000 characters, and
\* left unchanged by _clean_url; whichever strategy discovered it.
C2_CanonicalLinks == Extracted => \A u \in RetLinkSet : CanonicalLink(u)

\* The last call fetched its page and parsed it.
Succeeded ==
    /\ Extracted /\ call.outcome.kind = "response" /\ call.outcome.status < 400
    /\ call.outcome.parsers_failing < Len(Parsers)

\* C15: with filter_domain true and include_external false, on a page whose
\* only links are an anchor with the relative href /about and an anchor to
\* another host, the result is exactly the URL that resolving /about against
\* the page's final URL gives, also when the fetch was redirected to a host
\* other than the requested one.
C15_RelativeKept ==
    ( /\ Succeeded /\ SameDomainOnly
      /\ call.outcome.page = PageTwoAnchors
      /\ UrlParse(call.outcome.url).netloc # << "b" >> ) =>
        RetLinkSet = {UrlJoin(call.outcome.url, << "/", "a", "b", "o", "u", "t" >>)}

\* C16: on a page with one anchor href, one data-href attribute, one JSON-LD
\* object with an http-prefixed string property and one inline script with a
\* bare URL, all four URLs are in the set extract_links returns when no
\* domain restriction is configured.
C16_AllStrategies ==
    (Succeeded /\ ~ SameDomainOnly /\ call.outcome.page = PageFour) =>
        { UrlJoin(call.outcome.url, << "/", "a", "1" >>), << "h", "t", "t", "p", "s", ":", "/", "/", "b", "/", "d", "h" >>,
          << "h", "t", "t", "p", "s", ":", "/", "/", "d", "/", "o", "r", "g", "/" >>, << "h", "t", "t", "p", ":", "/", "/", "c", "/", "s" >> } \subseteq RetLinkSet

\* C16's case: the page with the four links, fetched after a redirect.
C16_Witness ==
    /\ Succeeded /\ ~ SameDomainOnly /\ call.outcome.page = PageFour
    /\ call.outcome.url = RedirectURL
    /\ << "h", "t", "t", "p", ":", "/", "/", "r", "/", "a", "1" >> \in RetLinkSet /\ << "h", "t", "t", "p", "s", ":", "/", "/", "d", "/", "o", "r", "g", "/" >> \in RetLinkSet
    /\ ret_diag["unique_links_found"] >= 4

\* page without its script elements equal to bad
WithoutScript(page, bad) ==
    [page EXCEPT !.scripts = SelectSeq(page.scripts, LAMBDA sc : sc # bad)]

\* C17: a JSON-LD block that is no JSON is skipped: the returned set holds
\* every link of the other strategies and of the well-formed JSON-LD blocks of
\* the page, and the call reports success.
C17_BrokenBlockSkipped ==
    (Succeeded /\ call.outcome.page = PageBrokenLd) =>
        /\ "success" \in DOMAIN ret_diag /\ ret_diag["success"] = TRUE
        /\ "error" \notin DOMAIN ret_diag
        /\ {<< "h", "t", "t", "p", ":", "/", "/", "e", "/", "x", "/" >>, << "h", "t", "t", "p", ":", "/", "/", "a", "/", "l", "d" >>} \subseteq RetLinkSet
        /\ ~ SameDomainOnly => UrlJoin(call.outcome.url, << "/", "o", "k" >>) \in RetLinkSet
        /\ DiscoveredLinks(WithoutScript(PageBrokenLd, BrokenLd), call.outcome.url, base_url,
                           call.filter_domain, call.include_external) \subseteq RetLinkSet

\* C17's case: the page with the broken block gave the links of its
\* well-formed block.
C17_Witness ==
    /\ Succeeded /\ call.outcome.page = PageBrokenLd
    /\ JsonLoads(BrokenLd.string) = JsonError
    /\ << "h", "t", "t", "p", ":", "/", "/", "e", "/", "x", "/" >> \in RetLinkSet
    /\ ret_diag["success"] = TRUE

\* page without the href values that are empty after trimming or begin with
\* javascript:, mailto:, tel:, # or data:, on its a, link and area elements
WithoutSkipped(page) ==
    [page EXCEPT !.anchors = SelectSeq(page.anchors, LAMBDA h : ~ SkippedHref(Strip(h))),
                 !.others = SelectSeq(page.others, LAMBDA h : ~ SkippedHref(Strip(h)))]

\* C23: an href that is empty after trimming or begins with javascript:,
\* mailto:, tel:, # or data: contributes no link, on an a, a link or an area
\* element: the result is that of the page without these hrefs, and the page
\* whose only fragment-bearing hrefs are fragment-only does not give its own URL.
C23_SkippedHrefs ==
    Succeeded =>
        /\ RetLinkSet = DiscoveredLinks(WithoutSkipped(call.outcome.page), call.outcome.url,
                                        base_url, call.filter_domain, call.include_external)
        /\ call.outcome.page = PageSkips => _clean_url(call.outcome.url) \notin RetLinkSet

(***************************************************************************)
(* Claims about the failures of extract_links, under Spec                  *)
(***************************************************************************)
\* The last call's fetch ended without any HTTP response.
NoResponse == Extracted /\ call.outcome.kind # "response"

\* The last call's fetch got a response with an error status.
ErrorResponse ==
    Extracted /\ call.outcome.kind = "response" /\ call.outcome.status >= 400

\* The last call's page was fetched and no parser could read it.
ParseFailed ==
    /\ Extracted /\ call.outcome.kind = "response" /\ call.outcome.status < 400
    /\ call.outcome.parsers_failing >= Len(Parsers)

\* The message of the last call's failure.
FailureMessage ==
    IF ParseFailed THEN MsgParseFailed
    ELSE CASE call.outcome.kind = "Timeout" -> MsgTimeout
           [] call.outcome.kind = "ConnectionError" -> MsgConnection
           [] call.outcome.kind = "TooManyRedirects" -> MsgRedirects
           [] call.outcome.kind = "RequestException" -> MsgRequestFailed(call.outcome.text)
           [] call.outcome.kind = "Exception" -> MsgUnexpected(call.outcome.text)
           [] call.outcome.status = 403 -> MsgForbidden
           [] call.outcome.status = 401 -> MsgUnauthorized
           [] call.outcome.status = 404 -> MsgNotFound
           [] OTHER -> MsgRequestFailed(RaiseForStatus(call.outcome.status, call.outcome.reason,
                                                       call.outcome.url))

\* C3: for every fetch failure kind and for a parse failure of all three
\* parsers, extract_links returns the empty set and diagnostics whose 'error'
\* entry is the non-empty message of that failure.
C3_SoftFailure ==
    (NoResponse \/ ErrorResponse \/ ParseFailed) =>
        /\ RetLinkSet = {}
        /\ "error" \in DOMAIN ret_diag
        /\ ret_diag["error"] # << >>
        /\ ret_diag["error"] = FailureMessage

\* The keys of the snapshot fetch_page takes of a response.
SnapshotKeys == {"status_code", "content_length", "content_type", "final_url", "redirected"}

\* C4: when a fetch fails after an HTTP response was received, the returned
\* diagnostics carry that response's status_code, content_length,
\* content_type, final_url and redirected flag; a 403 response yields the
\* empty link set, status_code 403 and an error text mentioning 'forbidden'.
C4_ResponseDiagnostics ==
    ErrorResponse =>
        /\ SnapshotKeys \subseteq DOMAIN ret_diag
        /\ ret_diag["status_code"] = call.outcome.status
        /\ ret_diag["content_length"] = call.outcome.page.content_length
        /\ ret_diag["content_type"] = (IF "Content-Type" \in DOMAIN call.outcome.headers
                                       THEN call.outcome.headers["Content-Type"]
                                       ELSE "unknown")
        /\ ret_diag["final_url"] = call.outcome.url
        /\ ret_diag["redirected"] = (call.outcome.url # TargetUrl(call.url, base_url))
        /\ call.outcome.status = 403 =>
              /\ RetLinkSet = {}
              /\ "error" \in DOMAIN ret_diag
              /\ Contains(Lower(ret_diag["error"]), << "f", "o", "r", "b", "i", "d", "d", "e", "n" >>)

\* C4's case: a 403 response that came after a redirect and without a
\* Content-Type header.
C4_Witness ==
    /\ ErrorResponse /\ call.outcome.status = 403
    /\ call.outcome.url = RedirectURL /\ call.outcome.headers = NoHeaders
    /\ SnapshotKeys \subseteq DOMAIN ret_diag
    /\ ret_diag["redirected"] /\ ret_diag["content_type"] = "unknown"
    /\ RetLinkSet = {}

\* C5: a call whose fetch fails without any HTTP response returns diagnostics
\* that contain the error message and nothing else, whatever calls came
\* before on the instance.
C5_OnlyTheError ==
    NoResponse => DOMAIN ret_diag = {"error"} /\ ret_diag["error"] = FailureMessage

\* C6 as stated: every response whose status is outside 200..299 and is not
\* 401, 403 or 404 ends in an empty set and a generic request-failure error.
C6_Original ==
    ( /\ Extracted /\ call.outcome.kind = "response"
      /\ call.outcome.status \notin 200..299
      /\ call.outcome.status \notin {401, 403, 404} ) =>
        /\ RetLinkSet = {}
        /\ "error" \in DOMAIN ret_diag
        /\ StartsWith(ret_diag["error"], MsgRequestFailed(<< >>))

\* C6 as amended: every response whose status is in 400..599 and is not 401,
\* 403 or 404 ends in an empty set and a generic request-failure error; a
\* response with a 1xx or 3xx status is returned and read like a 2xx one.
C6_ErrorStatuses ==
    (Extracted /\ call.outcome.kind = "response") =>
        /\ (call.outcome.status \in 400..599 /\ call.outcome.status \notin {401, 403, 404}) =>
              /\ RetLinkSet = {}
              /\ "error" \in DOMAIN ret_diag
              /\ StartsWith(ret_diag["error"], MsgRequestFailed(<< >>))
              /\ last_error = ret_diag["error"]
        /\ (call.outcome.status \in (100..199) \cup (300..399) /\ ~ ParseFailed) =>
              /\ "error" \notin DOMAIN ret_diag
              /\ "success" \in DOMAIN ret_diag /\ ret_diag["success"] = TRUE
              /\ ret_diag["status_code"] = call.outcome.status

\* C6's case: a 500 response ended in the generic request-failure error.
C6_Witness ==
    /\ Extracted /\ call.outcome.kind = "response" /\ call.outcome.status = 500
    /\ RetLinkSet = {}
    /\ "error" \in DOMAIN ret_diag
    /\ Contains(ret_diag["error"], << "5", "0", "0", " ", "S", "e", "r", "v", "e", "r", " ", "E", "r", "r", "o", "r" >>)

\* C7: every diagnostics mapping get_all_links returns contains the key
\* 'success', and on a successful extraction its value is true.
C7_SuccessKey ==
    call.op = "get_all_links" =>
        /\ "success" \in DOMAIN ret_diag
        /\ (call.outcome.kind = "response" /\ call.outcome.status < 400
            /\ call.outcome.parsers_failing < Len(Parsers)) => ret_diag["success"] = TRUE

\* The call was extract_links_with_browser in an environment that has a
\* driver and a page that loads with at least 100 characters of markup.
BrowserRendered ==
    /\ call.op = "extract_links_with_browser"
    /\ call.env.selenium
    /\ call.env.driver # "none"
    /\ call.env.page = "rendered"

\* C20: when extract_links_with_browser obtains a driver, the page loads and
\* the rendered markup has at least 100 characters, the returned diagnostics
\* hold success = true, a page_title and method = 'browser_automation' (and
\* the links are those of the markup, which the call has to reach first).
C20_BrowserSucceeds ==
    BrowserRendered
        => /\ "error" \notin DOMAIN ret_diag
           /\ "success" \in DOMAIN ret_diag /\ ret_diag["success"] = TRUE
           /\ "page_title" \in DOMAIN ret_diag
           /\ "method" \in DOMAIN ret_diag
           /\ ret_diag["method"] = << "b", "r", "o", "w", "s", "e", "r", "_", "a", "u", "t", "o", "m", "a", "t", "i",
                                      "o", "n" >>

Redirected ==
    \/ call.outcome.kind = "TooManyRedirects"
    \/ call.outcome.kind = "response"
       /\ call.outcome.url # TargetUrl(call.url, base_url)

BrowserDriverStep ==
    /\ call' # call
    /\ call'.op = "extract_links_with_browser"
    /\ call'.env.driver # "none"

\* The environment e with a driver.quit() that does not raise.
QuietQuit(e) == [e EXCEPT !.quit_raises = FALSE]

\* The step leaves r as the call's result and as the instance's diagnostics.
StepReturns(r) ==
    /\ ret_links' = r.links
    /\ ret_diag' = r.ret_diag
    /\ diagnostics' = r.diagnostics

\* C24: on every path of extract_links_with_browser on which a driver was
\* created, driver.quit() is called exactly once before the call returns, and
\* the call returns what it returns where quit does not raise.
C24_QuitOnce ==
    [][BrowserDriverStep =>
          /\ call'.quit_calls = 1
          /\ ~ call'.escaped
          /\ StepReturns(extract_links_with_browser(QuietQuit(call'.env), diagnostics))]_vars

C24_Witness ==
    /\ call.op = "extract_links_with_browser"
    /\ call.env.driver # "none"
    /\ call.env.quit_raises
    /\ call.quit_calls = 1
    /\ "error" \in DOMAIN ret_diag

(***************************************************************************)
(* Claims about _clean_url, under SpecClean                                *)
(***************************************************************************)
\* C8: _clean_url is idempotent: whenever _clean_url(raw) is a str, cleaning
\* it again returns it unchanged.
C8_CleanIdempotent == upc = "recleaned" => recleaned = cleaned

\* C8's case: an input that the first cleaning changed, cleaned a second time.
C8_Witness == upc = "recleaned" /\ cleaned # raw /\ EndsWith(raw, << "/", "/" >>)

\* C9: for a raw URL that contains '#', the result holds no '#' and is what
\* _clean_url returns for the part before the first '#' alone.
C9_FragmentDropped ==
    (upc # "in" /\ Contains(raw, << "#" >>)) =>
        /\ cleaned # None => ~ Contains(cleaned, << "#" >>)
        /\ cleaned = _clean_url(SplitFirst(raw, "#"))

\* C9's case: a URL with a fragment was cleaned to a str shorter than it.
C9_Witness ==
    /\ upc # "in" /\ Contains(raw, << "#" >>)
    /\ cleaned # None /\ Len(cleaned) < Len(raw)

\* C10 as stated: a valid URL that ends in '/' and whose path is not '/' is
\* returned without its last character; with the path '/', the slash is kept.
C10_Original ==
    (upc # "in" /\ _is_valid_url(raw) /\ EndsWith(raw, << "/" >>)) =>
        IF UrlParse(raw).path # << "/" >>
        THEN cleaned = SubSeq(raw, 1, Len(raw) - 1)
        ELSE cleaned # None /\ UrlParse(cleaned).path = << "/" >>

\* C10 as amended: a valid URL that ends in '/' and whose path is not '/' is
\* returned cut at its first '#' and with all its trailing slashes removed;
\* with the path '/', it is returned cut at its first '#', the root slash kept.
C10_TrailingSlashes ==
    (upc # "in" /\ _is_valid_url(raw) /\ EndsWith(raw, << "/" >>)) =>
        IF UrlParse(raw).path # << "/" >>
        THEN cleaned = RStrip(SplitFirst(raw, "#"), "/")
        ELSE cleaned = SplitFirst(raw, "#") /\ UrlParse(cleaned).path = << "/" >>

\* C10's case: a valid URL that ends in two slashes lost both.
C10_Witness ==
    /\ upc # "in" /\ _is_valid_url(raw) /\ EndsWith(raw, << "/", "/" >>)
    /\ UrlParse(raw).path # << "/" >>
    /\ cleaned # None /\ Len(cleaned) + 2 <= Len(raw)

(***************************************************************************)
(* Claims about POST /api/extract, under SpecApi                           *)
(***************************************************************************)
Requested == call.op = "api_extract"

\* The body has no url: it is no JSON object, or has no "url", or a null one.
HasNoUrl(data) == data.t # "obj" \/ "url" \notin DOMAIN data.d \/ data.d["url"].t = "null"

\* The body's url is the empty string.
HasEmptyUrl(data) ==
    /\ ~ HasNoUrl(data)
    /\ data.d["url"].t = "str"
    /\ data.d["url"].s = << >>

\* The body's url does not begin with 'http://' or 'https://'.
HasOtherUrl(data) ==
    /\ ~ HasNoUrl(data)
    /\ \/ data.d["url"].t # "str"
       \/ ~ (StartsWith(data.d["url"].s, << "h", "t", "t", "p", ":", "/", "/" >>) \/ StartsWith(data.d["url"].s, << "h", "t", "t", "p", "s", ":", "/", "/" >>))

\* C18: a request whose body has no url, an empty url or a url that does not
\* begin with 'http://' or 'https://' is answered with HTTP 400 and success
\* false, and neither is a LinkExtractor constructed nor a page fetched.
C18_ClientError ==
    (Requested /\ (HasNoUrl(call.data) \/ HasEmptyUrl(call.data) \/ HasOtherUrl(call.data)))
        => /\ response.status = 400
           /\ response.body.success = FALSE
           /\ ~ call.constructed
           /\ ~ call.fetched

\* The list holds its strings in Python's order, none twice.
SortedNoDup(l) == \A i \in 1..(Len(l) - 1) : StrLess(l[i], l[i + 1])

\* C19: a response after the URL passed validation, and without an unexpected
\* fault, carries 'links' sorted and free of duplicates and 'count' equal to
\* its length; it has success false and an 'error' exactly when the
\* diagnostics of the extractor's call hold an error, and success true
\* otherwise.
C19_Reply ==
    (Requested /\ call.constructed /\ response.status # 500)
        => /\ SortedNoDup(response.body.links)
           /\ response.body.count = Len(response.body.links)
           /\ response.body.diagnostics = ret_diag
           /\ "error" \in DOMAIN ret_diag
                => (response.body.success = FALSE /\ "error" \in DOMAIN response.body)
           /\ "error" \notin DOMAIN ret_diag
                => (response.body.success = TRUE /\ "error" \notin DOMAIN response.body)

C19_Witness ==
    /\ Requested /\ call.constructed /\ response.status # 500
    /\ response.body.success = TRUE
    /\ response.body.count >= 2

(***************************************************************************)
(* Claims about concurrent requests, under SpecServer                      *)
(***************************************************************************)

\* The reply the request of handler h gets when it is the only one served.
AloneReply(h) == api_extract(h.data, h.outcome, h.env).response

\* Handler i has replied.
Done(i) == handlers[i].pc = "done"

\* C22: under any interleaving of two /api/extract requests handled at a
\* time, a reply holds the links and the diagnostics of its own request alone:
\* it is the reply the request gets when nothing else is served, so that no
\* link and no diagnostics entry of the other request appears in it.
C22_Isolated ==
    \A i \in RequestIds : Done(i) => handlers[i].reply = AloneReply(handlers[i])

\* Both requests went through an extractor, the first to reply did so while
\* the other had its extractor in use, and the two replies differ.
C22_Witness ==
    /\ \A i \in RequestIds : Done(i) /\ ApiValidate(handlers[i].data) = NoReply
    /\ \E i \in RequestIds : handlers[i].overlapped
    /\ handlers[1].reply # handlers[2].reply
    /\ \E i \in RequestIds : handlers[i].reply.status = 200 /\ handlers[i].reply.body.count >= 2

====
